---- MODULE Spec2Model ----
(***************************************************************************)
(* A model of the Icarus event bus (src/core/event_bus.py), the agent      *)
(* lifecycle framework (src/agents/base.py), the fork manager              *)
(* (src/agents/fork_manager.py), the trade execution agent                 *)
(* (src/agents/execution.py) and the risk monitor                          *)
(* (src/agents/risk_monitor.py).                                           *)
(*                                                                         *)
(* The program runs on one asyncio event loop: a task runs without         *)
(* interruption from one suspension point (an await that really waits) to  *)
(* the next.  Every action below is one such uninterrupted stretch of one  *)
(* task.  Each component has its own specification (SpecBus, SpecAgent,    *)
(* SpecFork, SpecRisk, SpecExec, and the variants with fairness); the      *)
(* variables of the other                                                  *)
(* components stay at their initial values.                                *)
(***************************************************************************)
EXTENDS Integers, Sequences, FiniteSets, TLC

(***************************************************************************)
(* Bounds of the model.                                                    *)
(***************************************************************************)
\* EventBus(max_queue_size=...): the capacity of every subscriber queue.
max_queue_size == 2
\* How many queues subscribe() creates in one behaviour.
MaxQueues == 2
\* How many events are handed to publish() in one behaviour.
MaxPublish == 3

\* The event classes of the bus model (the registry is keyed by class name).
EventTypes == {"MarketTickEvent", "TradingSignalEvent"}

QueueIds == 1..MaxQueues

VARIABLES
    \* ---- EventBus ----
    subscribers,      \* self._subscribers: class name -> list of queues
    queues,           \* the contents of every asyncio.Queue created so far
    published_count,  \* self._published_count
    publish_result,   \* the last publish call: delivered, dropped, raised
    \* ---- observers of the bus (history, not program state) ----
    calls,            \* every event handed to publish, in call order, with
                      \* the queues registered for its type and the full ones
    consumed,         \* per queue: what its consumer dequeued, in order
    drained,          \* per queue: what close() discarded from it
    \* ---- one agent (BaseAgent and its EventDrivenAgent variant) ----
    kind,             \* "custom": start() is the subclass's own code;
                      \* "event_driven": EventDrivenAgent.start
    running,          \* self._running
    run_pc,           \* where run() is: "new", "start", "await_hb",
                      \* "stop_hook", "done"
    hb,               \* the heartbeat task: "none", "created", "sleeping", "done"
    hb_cancel,        \* cancel() was called on the heartbeat task
    cons,             \* per subscription: its _process_queue task
    start_exit,       \* how start() ended: "none", "returned", "cancelled",
                      \* or the exception it raised
    outcome,          \* how run() ended, likewise
    \* ---- observers of the agent ----
    trace,            \* the events the agent published, in order
    handled,          \* the events handle_event was called with, in order
    discarded,        \* the events dequeued and dropped without handling
    stop_calls,       \* how often _cleanup called the stop() hook
    \* ---- ForkManagerAgent (kind = "fork_manager") and its surroundings ----
    active_forks,     \* self.active_forks: fork id -> metadata
    ext_forks,        \* the forks that exist at the provider (tsdb service)
    clock,            \* datetime.now(), in seconds
    request_queue,    \* the queue subscribed to ForkRequestEvent
    completed_queue,  \* the queue subscribed to ForkCompletedEvent
    req_pc,           \* _process_fork_requests: "new", "waiting",
                      \* "persisting", "done"
    req_cur,          \* the fork and request that task is persisting
    comp_pc,          \* _process_fork_completions: "new", "waiting", "done"
    sweep_pc,         \* _cleanup_expired_forks: "new", "sleeping",
                      \* "destroying", "done"
    sweep_todo,       \* expired_forks still to destroy in this sweep
    stop_todo,        \* stop(): whether it has begun, fork_ids still to destroy
    \* ---- observers of the fork manager ----
    fm_log,           \* counters: requests rejected at capacity,
                      \* external create calls, forks created externally,
                      \* requests and completions published
    fork_created,     \* the ForkCreatedEvents published, in order
    sweep_rec,        \* the last sweep: its now, the forks it found, and
                      \* what became of each fork it tried to destroy
    stop_snapshot,    \* the forks tracked when stop() was entered
    \* ---- TradeExecutionAgent, inside start() ----
    trade_mode,          \* config trading.mode: "paper" or "real"
    position_size_pct,   \* config trading.position_size_pct
    current_allocations, \* self.current_allocations: strategy -> percent
    current_prices,      \* self.current_prices: symbol -> price
    strategy_portfolios, \* self.strategy_portfolios: strategy -> portfolio
    signal_queue,        \* the queue subscribed to TradingSignalEvent
    allocation_queue,    \* the queue subscribed to AllocationEvent
    market_queue,        \* the queue subscribed to MarketTickEvent
    sig_pc,              \* _process_signals: "waiting" or "persisting"
    pending_trade,       \* the trade _execute_* is persisting
    \* ---- observers of the execution agent ----
    trade_executed,      \* the TradeExecutedEvents published, in order
    trade_errors,        \* the TradeErrorEvents published, in order
    exec_log,            \* counters: signals, allocations, ticks published
    \* ---- RiskMonitorAgent ----
    halt_active,         \* self.halt_active
    daily_start_value,   \* self.daily_start_value
    risk_day,            \* the day of self.daily_start_time
    \* ---- observers of the risk monitor ----
    emergency_halts,     \* how many EmergencyHaltEvents were published
    last_check,          \* the last daily-loss check or reset: what it saw and did
    \* ---- DatabaseManager and the tasks that use it ----
    db,                  \* the pool's connections and each caller's position
    \* ---- PeriodicAgent.start ----
    periodic,            \* where the loop is, and how each iterate() ended
    \* ---- IcarusSystem.start and its agent tasks ----
    system               \* where start() is, and the state of every task

busVars == <<subscribers, queues, published_count, publish_result,
             calls, consumed, drained>>

agentVars == <<kind, running, run_pc, hb, hb_cancel, cons, start_exit,
               outcome, trace, handled, discarded, stop_calls>>

forkVars == <<active_forks, ext_forks, clock, request_queue, completed_queue,
              req_pc, req_cur, comp_pc, sweep_pc, sweep_todo, stop_todo,
              fm_log, fork_created, sweep_rec, stop_snapshot>>

execVars == <<trade_mode, position_size_pct, current_allocations,
              current_prices, strategy_portfolios, signal_queue,
              allocation_queue, market_queue, sig_pc, pending_trade,
              trade_executed, trade_errors, exec_log>>

riskVars == <<halt_active, daily_start_value, risk_day, emergency_halts,
              last_check>>

tradeVars == <<execVars, riskVars>>

\* The components modelled further below, each in one variable.
sideVars == <<db, periodic, system>>

vars == <<busVars, agentVars, forkVars, tradeVars, sideVars>>

\* What a step of the bus alone leaves as it is.
notBus == <<agentVars, forkVars, tradeVars, sideVars>>

(***************************************************************************)
(* Helpers.                                                                *)
(***************************************************************************)
Range(s) == {s[i] : i \in 1..Len(s)}

\* A remove that drops the last element of a list that holds x.
ListRemoveLast(s, x) ==
    IF \E i \in 1..Len(s) : s[i] = x THEN SubSeq(s, 1, Len(s) - 1) ELSE s

\* A remove that drops x, or the last element when x is absent.
ListRemoveOrPop(s, x) ==
    IF \E i \in 1..Len(s) : s[i] = x
    THEN SelectSeq(s, LAMBDA y : y # x)
    ELSE SubSeq(s, 1, Len(s) - 1)

\* list.remove(x): drops the first occurrence of x.
RECURSIVE ListRemove(_, _)
ListRemove(s, x) ==
    IF s = <<>> THEN <<>>
    ELSE IF Head(s) = x THEN Tail(s)
    ELSE <<Head(s)>> \o ListRemove(Tail(s), x)

\* get_event_type(event): the class name of the event.
get_event_type(e) == e.type

\* The queues created so far (a queue is an object; its identity is its
\* creation rank).
Created == {q \in QueueIds : q \in DOMAIN queues}

(***************************************************************************)
(* asyncio.Queue                                                           *)
(***************************************************************************)
\* Queue.full(): maxsize > 0 and qsize() >= maxsize.
QueueFull(content) == max_queue_size > 0 /\ Len(content) >= max_queue_size

\* A put that does not look at the capacity.
put_unbounded(content, e) ==
    [ok |-> TRUE, content |-> Append(content, e)]

\* Queue.put_nowait(e): appends, or raises QueueFull (ok = FALSE) and leaves
\* the queue as it is.
put_nowait(content, e) ==
    IF QueueFull(content)
    THEN [ok |-> FALSE, content |-> content]
    ELSE [ok |-> TRUE, content |-> Append(content, e)]

(***************************************************************************)
(* EventBus.publish                                                        *)
(***************************************************************************)
\* The state a publish call works on and leaves.
PublishState(qs, cnt, res) == [queues |-> qs, count |-> cnt, result |-> res]

\* The for loop stopping at the first full queue.
RECURSIVE publish_loop_break(_, _, _, _)
publish_loop_break(qs, list, e, res) ==
    IF list = <<>> THEN [queues |-> qs, result |-> res]
    ELSE LET q == Head(list)
             r == put_nowait(qs[q], e)
         IN IF r.ok
            THEN publish_loop_break([qs EXCEPT ![q] = r.content], Tail(list), e,
                                    [res EXCEPT !.delivered = @ + 1])
            ELSE [queues |-> qs, result |-> [res EXCEPT !.dropped = @ + 1]]

\* for queue in subscribers: try put_nowait / except QueueFull: dropped += 1
RECURSIVE publish_loop(_, _, _, _)
publish_loop(qs, list, e, res) ==
    IF list = <<>> THEN [queues |-> qs, result |-> res]
    ELSE LET q == Head(list)
             r == put_nowait(qs[q], e)
         IN IF r.ok
            THEN publish_loop([qs EXCEPT ![q] = r.content], Tail(list), e,
                              [res EXCEPT !.delivered = @ + 1])
            ELSE publish_loop(qs, Tail(list), e,
                              [res EXCEPT !.dropped = @ + 1])

NoResult == [delivered |-> 0, dropped |-> 0, raised |-> FALSE]

\* publish(event) on the bus state st: returns the state it leaves.
publish(st, subs, e) ==
    LET list == subs[get_event_type(e)]
    IN IF list = <<>>
       THEN [st EXCEPT !.result = NoResult]
       ELSE LET r == publish_loop(st.queues, list, e, NoResult)
            IN PublishState(r.queues, st.count + 1, r.result)

\* publish_multiple(events): for event in events: await self.publish(event)
RECURSIVE publish_multiple(_, _, _)
publish_multiple(st, subs, events) ==
    IF events = <<>> THEN st
    ELSE publish_multiple(publish(st, subs, Head(events)), subs, Tail(events))

(***************************************************************************)
(* The bus: initial state and operations.                                  *)
(***************************************************************************)
InitBus ==
    /\ subscribers = [t \in EventTypes |-> <<>>]
    /\ queues = <<>>
    /\ published_count = 0
    /\ publish_result = NoResult
    /\ calls = <<>>
    /\ consumed = <<>>
    /\ drained = <<>>

\* The queues registered for class t, and those of them that are full.
Registered(t) == Range(subscribers[t])
FullOnes(S) == {q \in S : Len(queues[q]) >= max_queue_size}

\* What the observers note of every publish call of one batch.
RECURSIVE CallRecords(_, _, _)
CallRecords(st, subs, events) ==
    IF events = <<>> THEN <<>>
    ELSE LET e == Head(events)
             S == Range(subs[e.type])
         IN <<[ev |-> e, targets |-> S,
               full |-> {q \in S : Len(st.queues[q]) >= max_queue_size}]>>
            \o CallRecords(publish(st, subs, e), subs, Tail(events))

\* The events of types ts, numbered on from the calls made so far.
NewEvents(ts) == [i \in 1..Len(ts) |-> [type |-> ts[i], id |-> Len(calls) + i]]

\* subscribe(event_type): a new queue, appended to the list of the class.
Subscribe(t) ==
    /\ Len(queues) < MaxQueues
    /\ LET q == Len(queues) + 1
       IN /\ queues' = Append(queues, <<>>)
          /\ subscribers' = [subscribers EXCEPT ![t] = Append(@, q)]
          /\ consumed' = Append(consumed, <<>>)
          /\ drained' = Append(drained, <<>>)
    /\ UNCHANGED <<published_count, publish_result, calls, notBus>>

\* unsubscribe(event_type, queue): list.remove, ValueError swallowed.
Unsubscribe(t, q) ==
    /\ q \in Created
    /\ subscribers' = [subscribers EXCEPT ![t] = ListRemove(@, q)]
    /\ UNCHANGED <<queues, published_count, publish_result, calls, consumed,
                   drained, notBus>>

\* The waiting variant: the caller goes on only once no queue is full.
PublishBlocking(ts) ==
    /\ Len(calls) + Len(ts) <= MaxPublish
    /\ \A i \in 1..Len(ts) : FullOnes(Registered(ts[i])) = {}
    /\ LET es == NewEvents(ts)
           st == publish_multiple(
                     PublishState(queues, published_count, publish_result),
                     subscribers, es)
       IN /\ queues' = st.queues
          /\ published_count' = st.count
          /\ publish_result' = st.result
          /\ calls' = calls \o CallRecords(
                        PublishState(queues, published_count, publish_result),
                        subscribers, es)
    /\ UNCHANGED <<subscribers, consumed, drained, notBus>>

\* A caller publishes the events of types ts: one publish(event) call when
\* Len(ts) = 1, publish_multiple(events) otherwise.  Neither suspends, so the
\* whole call is one step.
Publish(ts) ==
    /\ Len(calls) + Len(ts) <= MaxPublish
    /\ LET es == NewEvents(ts)
           st == publish_multiple(
                     PublishState(queues, published_count, publish_result),
                     subscribers, es)
       IN /\ queues' = st.queues
          /\ published_count' = st.count
          /\ publish_result' = st.result
          /\ calls' = calls \o CallRecords(
                        PublishState(queues, published_count, publish_result),
                        subscribers, es)
    /\ UNCHANGED <<subscribers, consumed, drained, notBus>>

\* The consumer of queue q takes the newest event instead of the oldest.
ConsumeNewest(q) ==
    /\ q \in Created
    /\ queues[q] # <<>>
    /\ consumed' = [consumed EXCEPT ![q] = Append(@, queues[q][Len(queues[q])])]
    /\ queues' = [queues EXCEPT ![q] = SubSeq(@, 1, Len(@) - 1)]
    /\ UNCHANGED <<subscribers, published_count, publish_result, calls, drained, notBus>>

\* consume_events(queue): event = await queue.get(); yield event
Consume(q) ==
    /\ q \in Created
    /\ queues[q] # <<>>
    /\ consumed' = [consumed EXCEPT ![q] = Append(@, Head(queues[q]))]
    /\ queues' = [queues EXCEPT ![q] = Tail(@)]
    /\ UNCHANGED <<subscribers, published_count, publish_result, calls, drained, notBus>>

\* A close that clears the registry and leaves the queues as they are.
CloseWithoutDrain ==
    /\ subscribers' = [t \in EventTypes |-> <<>>]
    /\ UNCHANGED <<queues, drained, published_count, publish_result, calls,
                   consumed, notBus>>

\* close(): drains every registered queue, then clears the registry.
Close ==
    /\ LET reg == UNION {Registered(t) : t \in EventTypes}
       IN /\ queues' = [q \in DOMAIN queues |->
                          IF q \in reg THEN <<>> ELSE queues[q]]
          /\ drained' = [q \in DOMAIN drained |->
                          IF q \in reg THEN drained[q] \o queues[q]
                          ELSE drained[q]]
    /\ subscribers' = [t \in EventTypes |-> <<>>]
    /\ UNCHANGED <<published_count, publish_result, calls, consumed, notBus>>

\* The sequences of at most two event classes a caller publishes at once.
Batches ==
    {<<t>> : t \in EventTypes} \cup {<<t, u>> : t \in EventTypes, u \in EventTypes}

NextBus ==
    \/ \E t \in EventTypes : Subscribe(t)
    \/ \E t \in EventTypes, q \in QueueIds : Unsubscribe(t, q)
    \/ \E ts \in Batches : Publish(ts)
    \/ \E q \in QueueIds : Consume(q)
    \/ Close

\* No agent runs beside the bus.
NoAgent ==
    /\ kind = "custom"
    /\ running = FALSE
    /\ run_pc = "new"
    /\ hb = "none"
    /\ hb_cancel = FALSE
    /\ cons = <<>>
    /\ start_exit = "none"
    /\ outcome = "none"
    /\ trace = <<>>
    /\ handled = <<>>
    /\ discarded = <<>>
    /\ stop_calls = 0

\* No execution agent and no risk monitor run.
NoTrading ==
    /\ trade_mode = "paper"
    /\ position_size_pct = 0
    /\ current_allocations = <<>>
    /\ current_prices = <<>>
    /\ strategy_portfolios = <<>>
    /\ signal_queue = <<>>
    /\ allocation_queue = <<>>
    /\ market_queue = <<>>
    /\ sig_pc = "waiting"
    /\ pending_trade = <<>>
    /\ trade_executed = <<>>
    /\ trade_errors = <<>>
    /\ exec_log = [signals |-> 0, allocations |-> 0, ticks |-> 0]
    /\ halt_active = FALSE
    /\ daily_start_value = 0
    /\ risk_day = 0
    /\ emergency_halts = 0
    /\ last_check = [checks |-> 0, seen |-> 0, did |-> "none"]

\* No database operation is in progress and none was made.
NoDatabase == db = [conns |-> <<>>, failed |-> 0, at |-> <<>>]

\* No periodic agent runs.
NoPeriodic == periodic = [pc |-> "none", iterations |-> <<>>]

\* No system was started.
NoSystem == system = [pc |-> "none", tasks |-> <<>>]

NoSide == NoDatabase /\ NoPeriodic /\ NoSystem

\* No fork manager runs.
NoForkManager ==
    /\ active_forks = <<>>
    /\ ext_forks = {}
    /\ clock = 0
    /\ request_queue = <<>>
    /\ completed_queue = <<>>
    /\ req_pc = "new"
    /\ req_cur = <<>>
    /\ comp_pc = "new"
    /\ sweep_pc = "new"
    /\ sweep_todo = <<>>
    /\ stop_todo = [begun |-> FALSE, ids |-> <<>>]
    /\ fm_log = [rejected |-> 0, create_calls |-> 0,
                 created |-> 0, requests |-> 0, completions |-> 0]
    /\ fork_created = <<>>
    /\ sweep_rec = [sweeps |-> 0, now |-> 0, found |-> <<>>, results |-> <<>>]
    /\ stop_snapshot = {}

Init == InitBus /\ NoAgent /\ NoForkManager /\ NoTrading /\ NoSide

SpecBus == Init /\ [][NextBus]_vars

(***************************************************************************)
(* Claims about the event bus.                                             *)
(***************************************************************************)
\* The events the calls so far delivered to queue q: those published while q
\* was registered for their class and not full.
Accepted(q) ==
    LET idx == {i \in 1..Len(calls) :
                    q \in calls[i].targets /\ q \notin calls[i].full}
        RECURSIVE Pick(_)
        Pick(i) == IF i > Len(calls) THEN <<>>
                   ELSE (IF i \in idx THEN <<calls[i].ev>> ELSE <<>>) \o Pick(i + 1)
    IN Pick(1)

\* C1: a publish(e) call appends exactly one copy of e to every queue that is
\* registered for e's class and not full, leaves every full queue and every
\* queue of another class (or of no class) as it was, and raises nothing; with
\* no subscriber at all it changes no queue.
C1_PublishDelivers ==
    [][Len(calls') = Len(calls) + 1 =>
         LET e == calls'[Len(calls')].ev
         IN /\ \A q \in DOMAIN queues :
                 queues'[q] =
                     IF q \in Registered(e.type) /\ Len(queues[q]) < max_queue_size
                     THEN Append(queues[q], e)
                     ELSE queues[q]
            /\ DOMAIN queues' = DOMAIN queues
            /\ publish_result'.raised = FALSE
            /\ publish_result'.delivered =
                   Cardinality(Registered(e.type) \ FullOnes(Registered(e.type)))
            /\ publish_result'.dropped =
                   Cardinality(FullOnes(Registered(e.type)))
      ]_vars

\* C1 witness: a call found a full and a non-full queue registered for its
\* class, and delivered to the one and dropped for the other.
C1_Witness ==
    /\ calls # <<>>
    /\ LET c == calls[Len(calls)]
       IN /\ c.full # {} /\ c.targets \ c.full # {}
          /\ publish_result.delivered = 1 /\ publish_result.dropped = 1

\* C2: for every queue, what its consumer dequeued, followed by what close()
\* discarded and what is still queued, is exactly the sequence of the events
\* published while the queue was registered and not full, in publish order:
\* nothing reordered, nothing twice, also through publish_multiple.
C2_FifoPerQueue ==
    \A q \in Created : consumed[q] \o drained[q] \o queues[q] = Accepted(q)

\* C2 witness: a consumer has dequeued two events and an event between or
\* around them was dropped for its queue.
C2_Witness ==
    \E q \in Created :
        /\ Len(consumed[q]) >= 2
        /\ \E i \in 1..Len(calls) : q \in calls[i].full

\* C3: a publish call is never made to wait: whatever the queues hold, and with
\* no consumer ever dequeuing, every call a producer has left can be made.
C3_PublishNeverBlocks ==
    \A t \in EventTypes :
        Len(calls) < MaxPublish => ENABLED Publish(<<t>>)

\* C3 witness: a call completed although every queue registered for its class
\* was full.
C3_Witness ==
    \E i \in 1..Len(calls) :
        calls[i].targets # {} /\ calls[i].full = calls[i].targets

\* C4: no queue ever holds more than max_queue_size events, and a publish step
\* leaves a queue that was full exactly as it was.
C4_QueueBounded ==
    /\ \A q \in DOMAIN queues : Len(queues[q]) <= max_queue_size
    /\ [][/\ \A q \in DOMAIN queues' : Len(queues'[q]) <= max_queue_size
          /\ calls' # calls =>
               \A q \in DOMAIN queues :
                   Len(queues[q]) = max_queue_size => queues'[q] = queues[q]
         ]_vars

\* C4 witness: an event was dropped for a queue that still holds
\* max_queue_size events, the oldest of which was published before the dropped
\* one.
C4_Witness ==
    \E q \in Created : \E i \in 1..Len(calls) :
        /\ q \in calls[i].full
        /\ Len(queues[q]) = max_queue_size
        /\ queues[q][1].id < calls[i].ev.id

(***************************************************************************)
(* BaseAgent: run(), _cleanup(), the heartbeat task, and the consumers of  *)
(* an EventDrivenAgent.                                                    *)
(***************************************************************************)
\* How many heartbeats one run publishes at most in a behaviour.
MaxBeats == 1
\* How many events start() itself publishes at most in a behaviour.
MaxOwnEvents == 1

\* The exceptions start() may raise.
Exceptions == {"ValueError", "RuntimeError"}

\* The classes an EventDrivenAgent may have subscribed to at construction
\* (add_subscription), in subscription order.
SubscriptionLists ==
    {<<>>, <<"MarketTickEvent">>, <<"MarketTickEvent", "TradingSignalEvent">>}

\* The lifecycle events.
AgentStartedEvent == [type |-> "AgentStartedEvent"]
AgentStoppedEvent == [type |-> "AgentStoppedEvent", reason |-> "normal_shutdown"]
AgentHeartbeatEvent == [type |-> "AgentHeartbeatEvent", status |-> "running"]
AgentErrorEvent(e) ==
    [type |-> "AgentErrorEvent", error_type |-> e, is_fatal |-> TRUE]
OwnEvent == [type |-> "TradingSignalEvent"]

CountType(tr, t) == Cardinality({i \in 1..Len(tr) : tr[i].type = t})

\* The state after construction: an agent that was never run.  An
\* EventDrivenAgent has its queues registered with the bus.
InitAgent ==
    /\ \E k \in {"custom", "event_driven"}, sl \in SubscriptionLists :
          /\ kind = k
          /\ k = "custom" => sl = <<>>
          /\ subscribers = [t \in EventTypes |->
                              IF \E i \in 1..Len(sl) : sl[i] = t
                              THEN <<CHOOSE i \in 1..Len(sl) : sl[i] = t>>
                              ELSE <<>>]
          /\ queues = [i \in 1..Len(sl) |-> <<>>]
          /\ consumed = [i \in 1..Len(sl) |-> <<>>]
          /\ drained = [i \in 1..Len(sl) |-> <<>>]
          /\ cons = [i \in 1..Len(sl) |-> "new"]
    /\ published_count = 0
    /\ publish_result = NoResult
    /\ calls = <<>>
    /\ running = FALSE
    /\ run_pc = "new"
    /\ hb = "none"
    /\ hb_cancel = FALSE
    /\ start_exit = "none"
    /\ outcome = "none"
    /\ trace = <<>>
    /\ handled = <<>>
    /\ discarded = <<>>
    /\ stop_calls = 0
    /\ NoForkManager
    /\ NoTrading
    /\ NoSide

\* The except clauses of run(), with the error swallowed instead of re-raised.
on_exit_swallow(how) ==
    IF how \in Exceptions
    THEN [events |-> <<AgentErrorEvent(how)>>, reraise |-> "returned"]
    ELSE [events |-> <<>>, reraise |-> how]

\* The except clauses of run(): what is published and what is re-raised when
\* start() ends as `how`.
on_exit(how) ==
    IF how \in Exceptions
    THEN [events |-> <<AgentErrorEvent(how)>>, reraise |-> how]
    ELSE [events |-> <<>>, reraise |-> how]

\* Cleanup written after the try block instead of in a finally clause: it is
\* skipped when an exception leaves run().
cleanup_unless_raised(how) == how = "returned"

\* finally: await self._cleanup() -- on every way out of the try block.
runs_cleanup(how) == TRUE

\* run() leaves start() as `how` and goes on, without suspending, through the
\* except clause and into _cleanup(): the flag is cleared and the heartbeat
\* task cancelled; if that task is already done, the await on it returns at
\* once and _cleanup() goes on to the stop() hook and the stopped event.
LeaveStart(how) ==
    LET x == on_exit(how)
        tr == trace \o x.events
    IN /\ start_exit' = how
       /\ IF ~runs_cleanup(how)
          THEN /\ run_pc' = "done"
               /\ outcome' = x.reraise
               /\ trace' = tr
               /\ UNCHANGED <<running, hb, hb_cancel, stop_calls>>
          ELSE /\ running' = FALSE
               /\ hb' = hb
               /\ hb_cancel' = (hb_cancel \/ hb # "done")
               /\ IF hb = "done" /\ kind = "fork_manager"
                  THEN /\ stop_calls' = stop_calls + 1
                       /\ trace' = tr
                       /\ run_pc' = "stop_hook"
                       /\ UNCHANGED outcome
                  ELSE IF hb = "done"
                  THEN /\ stop_calls' = stop_calls + 1
                       /\ trace' = Append(tr, AgentStoppedEvent)
                       /\ run_pc' = "done"
                       /\ outcome' = x.reraise
                  ELSE /\ trace' = tr
                       /\ run_pc' = "await_hb"
                       /\ UNCHANGED <<stop_calls, outcome>>

\* run() up to the first suspension inside start(): sets the flag, publishes
\* the started event, creates the heartbeat task, enters start().  An
\* EventDrivenAgent with subscriptions has gather() start one _process_queue
\* per subscription.
RunBegin ==
    /\ run_pc = "new"
    /\ running' = TRUE
    /\ trace' = Append(trace, AgentStartedEvent)
    /\ hb' = "created"
    /\ run_pc' = "start"
    /\ cons' = [i \in DOMAIN cons |-> "waiting"]
    /\ UNCHANGED <<kind, hb_cancel, start_exit, outcome, handled, discarded,
                   stop_calls, busVars, forkVars, tradeVars, sideVars>>

\* start() of a custom agent publishes an event of its own.
StartPublishes ==
    /\ kind = "custom" /\ run_pc = "start"
    /\ CountType(trace, OwnEvent.type) < MaxOwnEvents
    /\ trace' = Append(trace, OwnEvent)
    /\ UNCHANGED <<kind, running, run_pc, hb, hb_cancel, cons, start_exit,
                   outcome, handled, discarded, stop_calls, busVars, forkVars, tradeVars, sideVars>>

\* start() of a custom agent returns.
StartReturns ==
    /\ kind = "custom" /\ run_pc = "start"
    /\ LeaveStart("returned")
    /\ UNCHANGED <<kind, cons, handled, discarded, busVars, forkVars, tradeVars, sideVars>>

\* start() of a custom agent raises e.
StartRaises(e) ==
    /\ kind = "custom" /\ run_pc = "start"
    /\ LeaveStart(e)
    /\ UNCHANGED <<kind, cons, handled, discarded, busVars, forkVars, tradeVars, sideVars>>

\* EventDrivenAgent.start: gather() returns once every _process_queue has
\* ended (at once when there is no subscription).
GatherDone ==
    /\ kind = "event_driven" /\ run_pc = "start"
    /\ \A i \in DOMAIN cons : cons[i] = "done"
    /\ LeaveStart("returned")
    /\ UNCHANGED <<kind, cons, handled, discarded, busVars, forkVars, tradeVars, sideVars>>

\* The task running run() is cancelled while it waits inside start(): the
\* consumers waiting in queue.get() are cancelled with it (consume_events
\* breaks on CancelledError), and CancelledError leaves start().
CancelStart ==
    /\ run_pc = "start"
    /\ cons' = [i \in DOMAIN cons |-> "done"]
    /\ LeaveStart("cancelled")
    /\ UNCHANGED <<kind, handled, discarded, busVars, forkVars, tradeVars, sideVars>>

\* stop() is called on the running agent from outside, or a handler clears
\* the flag: self._running = False.
StopRequested ==
    /\ run_pc = "start" /\ running
    /\ running' = FALSE
    /\ UNCHANGED <<kind, run_pc, hb, hb_cancel, cons, start_exit, outcome,
                   trace, handled, discarded, stop_calls, busVars, forkVars, tradeVars, sideVars>>

\* _heartbeat_loop, one round: while self._running: publish; sleep.
HeartbeatStep ==
    /\ hb \in {"created", "sleeping"} /\ ~hb_cancel
    /\ IF running
       THEN /\ CountType(trace, AgentHeartbeatEvent.type) < MaxBeats
            /\ trace' = Append(trace, AgentHeartbeatEvent)
            /\ hb' = "sleeping"
       ELSE /\ hb' = "done"
            /\ UNCHANGED trace
    /\ UNCHANGED <<kind, running, run_pc, hb_cancel, cons, start_exit, outcome,
                   handled, discarded, stop_calls, busVars, forkVars, tradeVars, sideVars>>

\* The cancelled heartbeat task ends: before its first step, or out of its
\* sleep (except CancelledError: break).
HeartbeatCancelled ==
    /\ hb \in {"created", "sleeping"} /\ hb_cancel
    /\ hb' = "done"
    /\ UNCHANGED <<kind, running, run_pc, hb_cancel, cons, start_exit, outcome,
                   trace, handled, discarded, stop_calls, busVars, forkVars, tradeVars, sideVars>>

\* _cleanup() after the await on the heartbeat task: the stop() hook
\* (BaseAgent.stop: self._running = False), then the stopped event; run()
\* then ends with what the except clause re-raised.  The stop() hook of the
\* fork manager has suspension points: it runs in steps of its own.
CleanupFinish ==
    /\ run_pc = "await_hb" /\ hb = "done"
    /\ running' = FALSE
    /\ stop_calls' = stop_calls + 1
    /\ IF kind = "fork_manager"
       THEN /\ run_pc' = "stop_hook"
            /\ UNCHANGED <<trace, outcome>>
       ELSE /\ trace' = Append(trace, AgentStoppedEvent)
            /\ run_pc' = "done"
            /\ outcome' = on_exit(start_exit).reraise
    /\ UNCHANGED <<kind, hb, hb_cancel, cons, start_exit, handled, discarded,
                   busVars, forkVars, tradeVars, sideVars>>

\* _consume_events with its test of the flag left out: every event taken is
\* yielded.
consume_events_yields_always(is_running) == TRUE

\* _consume_events: `if not self._running: break` stands between the event
\* that consume_events took from the queue and the yield.
consume_events_yields(is_running) == is_running

\* _process_queue over _consume_events over consume_events, one round:
\* event = await queue.get(); if not self._running: break; handle_event(event)
\* (an exception of the handler is logged).
ConsumerGet(q) ==
    /\ kind = "event_driven" /\ run_pc = "start"
    /\ q \in DOMAIN cons /\ cons[q] = "waiting"
    /\ queues[q] # <<>>
    /\ queues' = [queues EXCEPT ![q] = Tail(@)]
    /\ consumed' = [consumed EXCEPT ![q] = Append(@, Head(queues[q]))]
    /\ IF consume_events_yields(running)
       THEN /\ handled' = Append(handled, Head(queues[q]))
            /\ UNCHANGED <<cons, discarded>>
       ELSE /\ cons' = [cons EXCEPT ![q] = "done"]
            /\ discarded' = Append(discarded, Head(queues[q]))
            /\ UNCHANGED handled
    /\ UNCHANGED <<subscribers, published_count, publish_result, calls, drained,
                   kind, running, run_pc, hb, hb_cancel, start_exit, outcome,
                   trace, stop_calls, forkVars, tradeVars, sideVars>>

\* The steps the agent takes by itself, with nothing arriving from outside.
AgentSteps ==
    \/ RunBegin
    \/ StartPublishes
    \/ StartReturns
    \/ \E e \in Exceptions : StartRaises(e)
    \/ GatherDone
    \/ HeartbeatStep
    \/ HeartbeatCancelled
    \/ CleanupFinish
    \/ \E q \in QueueIds : ConsumerGet(q)

\* What comes from outside: cancellation, a stop request, published events.
NextAgent ==
    \/ AgentSteps
    \/ CancelStart
    \/ StopRequested
    \/ \E t \in EventTypes : Publish(<<t>>)

SpecAgent == InitAgent /\ [][NextAgent]_vars

(***************************************************************************)
(* Claims about the agent lifecycle.                                       *)
(***************************************************************************)
\* C5: a run publishes the started event first and only once; once run() has
\* ended it has published exactly one stopped event, as the last event of the
\* run, and none before; this on every way start() can end (returned, raised,
\* cancelled).
C5_StartedAndStoppedOnce ==
    /\ trace # <<>> => trace[1] = AgentStartedEvent
    /\ CountType(trace, "AgentStartedEvent") = (IF run_pc = "new" THEN 0 ELSE 1)
    /\ CountType(trace, "AgentStoppedEvent") = (IF run_pc = "done" THEN 1 ELSE 0)
    /\ run_pc = "done" =>
          /\ start_exit \in {"returned", "cancelled"} \cup Exceptions
          /\ trace[Len(trace)] = AgentStoppedEvent

\* C5 witness: a run whose start() was cancelled has ended, after publishing
\* a heartbeat.
C5_Witness ==
    /\ run_pc = "done" /\ start_exit = "cancelled"
    /\ CountType(trace, "AgentHeartbeatEvent") = 1
    /\ trace[Len(trace)] = AgentStoppedEvent

\* C6: when start() raised exception e, the ended run has published exactly
\* one error event, fatal and naming e, directly before the stopped event; the
\* heartbeat task has ended, the stop() hook was called once, the flag is
\* cleared and run() re-raised e.  When start() was cancelled, no error event
\* was published and run() ended cancelled.
C6_ErrorThenCleanupThenReraise ==
    run_pc = "done" =>
        /\ start_exit \in Exceptions =>
              /\ CountType(trace, "AgentErrorEvent") = 1
              /\ Len(trace) >= 3
              /\ trace[Len(trace) - 1] =
                     [type |-> "AgentErrorEvent", error_type |-> start_exit,
                      is_fatal |-> TRUE]
              /\ trace[Len(trace)].type = "AgentStoppedEvent"
              /\ hb = "done" /\ stop_calls = 1 /\ ~running
              /\ outcome = start_exit
        /\ start_exit = "cancelled" =>
              /\ CountType(trace, "AgentErrorEvent") = 0
              /\ hb = "done" /\ stop_calls = 1 /\ ~running
              /\ outcome = "cancelled"

\* C6 witness: a run whose start() raised has ended, and its heartbeat task was
\* cancelled out of its sleep.
C6_Witness ==
    /\ run_pc = "done" /\ start_exit = "ValueError" /\ outcome = "ValueError"
    /\ hb_cancel /\ CountType(trace, "AgentHeartbeatEvent") = 1

\* C7: once the running flag of a started agent is cleared, the agent gets to
\* the end of run() by its own steps alone: as long as run() has not ended,
\* some step of the agent is possible without any further event published.
C7_StopTerminates ==
    (run_pc \in {"start", "await_hb"} /\ ~running) => ENABLED AgentSteps

\* ---------------------------------------------------------------------------
\* ForkManagerAgent (src/agents/fork_manager.py)
\* ---------------------------------------------------------------------------

max_concurrent_forks == 1
MaxForkRequests == 2
MaxCompletions == 1
MaxTime == 2
MaxSweeps == 1

ForkIds == 1..MaxForkRequests
TTLs == {1}
Requesters == {"backtest"}
CreateOutcomes == {"ok", "error", "untracked"}

\* sorted list of a set of fork ids: dicts keep insertion order, and forks
\* are inserted in the order of their ids.
RECURSIVE IdList(_)
IdList(S) ==
    IF S = {} THEN <<>>
    ELSE LET m == CHOOSE x \in S : \A y \in S : x <= y
         IN <<m>> \o IdList(S \ {m})

\* The capacity test of _create_fork, off by one.
at_capacity_late(n) == n > max_concurrent_forks

\* _create_fork: len(self.active_forks) >= self.max_concurrent_forks
at_capacity(n) == n >= max_concurrent_forks

\* The expiry test of _cleanup_expired_forks, not strict.
expired_at_ttl(now, meta) == now - meta.created_at >= meta.ttl_seconds

\* _cleanup_expired_forks: age_seconds > metadata['ttl_seconds']
expired(now, meta) == now - meta.created_at > meta.ttl_seconds

\* _destroy_fork(f) without its check that the fork is tracked: the external
\* delete call is made for any id.
destroy_fork_unchecked(f, ok) ==
    IF ok
    THEN [active |-> [g \in DOMAIN active_forks \ {f} |-> active_forks[g]],
          ext |-> ext_forks \ {f},
          result |-> "deleted"]
    ELSE [active |-> active_forks, ext |-> ext_forks, result |-> "failed"]

\* _destroy_fork(f) that pops the fork before it knows the delete succeeded.
destroy_fork_forgets(f, ok) ==
    IF f \notin DOMAIN active_forks
    THEN [active |-> active_forks, ext |-> ext_forks, result |-> "unknown"]
    ELSE [active |-> [g \in DOMAIN active_forks \ {f} |-> active_forks[g]],
          ext |-> IF ok THEN ext_forks \ {f} ELSE ext_forks,
          result |-> IF ok THEN "deleted" ELSE "failed"]

\* _destroy_fork(f), where the external delete call succeeds iff ok: an
\* unknown fork is left alone without any call; a failed delete is logged and
\* the fork stays tracked; else the fork is popped (the update of the
\* metadata row that follows changes nothing here).
destroy_fork(f, ok) ==
    IF f \notin DOMAIN active_forks
    THEN [active |-> active_forks, ext |-> ext_forks, result |-> "unknown"]
    ELSE IF ok
    THEN [active |-> [g \in DOMAIN active_forks \ {f} |-> active_forks[g]],
          ext |-> ext_forks \ {f},
          result |-> "deleted"]
    ELSE [active |-> active_forks, ext |-> ext_forks, result |-> "failed"]

\* A constructed fork manager on an empty bus, not yet run.
InitFork ==
    /\ InitBus
    /\ kind = "fork_manager"
    /\ running = FALSE
    /\ run_pc = "new"
    /\ hb = "none"
    /\ hb_cancel = FALSE
    /\ cons = <<>>
    /\ start_exit = "none"
    /\ outcome = "none"
    /\ trace = <<>>
    /\ handled = <<>>
    /\ discarded = <<>>
    /\ stop_calls = 0
    /\ NoForkManager
    /\ NoTrading
    /\ NoSide

\* What a step of the fork manager's own tasks leaves as it is.
notForkTask == <<tradeVars, sideVars, busVars, kind, running, run_pc, hb, hb_cancel, cons,
                 start_exit, outcome, trace, handled, discarded, stop_calls>>

\* run() up to the first suspension inside start(): as RunBegin, and start()
\* subscribes to ForkRequestEvent and ForkCompletedEvent and has gather()
\* start the three loops.
FmRunBegin ==
    /\ kind = "fork_manager" /\ run_pc = "new"
    /\ running' = TRUE
    /\ trace' = Append(trace, AgentStartedEvent)
    /\ hb' = "created"
    /\ run_pc' = "start"
    /\ req_pc' = "waiting"
    /\ comp_pc' = "waiting"
    /\ sweep_pc' = "sleeping"
    /\ UNCHANGED <<tradeVars, sideVars, busVars, kind, hb_cancel, cons, start_exit,
                   outcome, handled, discarded, stop_calls, active_forks, ext_forks, clock,
                   request_queue, completed_queue, req_cur, sweep_todo,
                   stop_todo, fm_log, fork_created, sweep_rec,
                   stop_snapshot>>

\* Some agent publishes a ForkRequestEvent while the manager is subscribed
\* and reads its queues: the event reaches the manager's queue unless that
\* queue is full.
PublishForkRequest(a, ttl) ==
    /\ run_pc = "start"
    /\ fm_log.requests < MaxForkRequests
    /\ fm_log' = [fm_log EXCEPT !.requests = @ + 1]
    /\ request_queue' =
          put_nowait(request_queue,
                     [requesting_agent |-> a, ttl_seconds |-> ttl]).content
    /\ UNCHANGED <<notForkTask, active_forks, ext_forks, clock, completed_queue,
                   req_pc, req_cur, comp_pc, sweep_pc, sweep_todo, stop_todo,
                   fork_created, sweep_rec, stop_snapshot>>

\* Some agent publishes a ForkCompletedEvent for a fork f that it holds.
PublishForkCompleted(f) ==
    /\ run_pc = "start"
    /\ f \in DOMAIN active_forks
    /\ fm_log.completions < MaxCompletions
    /\ fm_log' = [fm_log EXCEPT !.completions = @ + 1]
    /\ completed_queue' = put_nowait(completed_queue, [fork_id |-> f]).content
    /\ UNCHANGED <<notForkTask, active_forks, ext_forks, clock, request_queue,
                   req_pc, req_cur, comp_pc, sweep_pc, sweep_todo, stop_todo,
                   fork_created, sweep_rec, stop_snapshot>>

\* Time passes.  (The clock is read inside start() only, and only to tell
\* whether a tracked fork is older than its ttl: time stands still while
\* every tracked fork is.)
Tick ==
    /\ run_pc = "start"
    /\ \E f \in DOMAIN active_forks : ~expired(clock, active_forks[f])
    /\ clock < MaxTime
    /\ clock' = clock + 1
    /\ UNCHANGED <<notForkTask, active_forks, ext_forks, request_queue,
                   completed_queue, req_pc, req_cur, comp_pc, sweep_pc,
                   sweep_todo, stop_todo, fm_log, fork_created,
                   sweep_rec, stop_snapshot>>

\* _process_fork_requests, one round up to its next suspension: take a
\* request (the loop ends if the flag is cleared) and run _create_fork: at
\* capacity the request is dropped; else the external create call is made.
\* It fails ("error"), or creates a fork whose id cannot be read or whose
\* connection parameters cannot be fetched ("untracked"), or the fork is
\* tracked ("ok") and the task suspends in _persist_fork_metadata.
FmCreateFork(how) ==
    /\ run_pc = "start" /\ req_pc = "waiting"
    /\ request_queue # <<>>
    /\ request_queue' = Tail(request_queue)
    /\ LET request == Head(request_queue)
           f == fm_log.created + 1
       IN IF ~running
          THEN /\ req_pc' = "done"
               /\ UNCHANGED <<active_forks, ext_forks, req_cur, fm_log>>
          ELSE IF at_capacity(Cardinality(DOMAIN active_forks))
          THEN /\ fm_log' = [fm_log EXCEPT !.rejected = @ + 1]
               /\ UNCHANGED <<active_forks, ext_forks, req_pc, req_cur>>
          ELSE IF how = "error"
          THEN /\ fm_log' = [fm_log EXCEPT !.create_calls = @ + 1]
               /\ UNCHANGED <<active_forks, ext_forks, req_pc, req_cur>>
          ELSE IF how = "untracked"
          THEN /\ fm_log' = [fm_log EXCEPT !.create_calls = @ + 1,
                                           !.created = @ + 1]
               /\ ext_forks' = ext_forks \cup {f}
               /\ UNCHANGED <<active_forks, req_pc, req_cur>>
          ELSE /\ fm_log' = [fm_log EXCEPT !.create_calls = @ + 1,
                                           !.created = @ + 1]
               /\ ext_forks' = ext_forks \cup {f}
               /\ active_forks' =
                     [g \in DOMAIN active_forks \cup {f} |->
                        IF g = f
                        THEN [requesting_agent |-> request.requesting_agent,
                              created_at |-> clock,
                              ttl_seconds |-> request.ttl_seconds]
                        ELSE active_forks[g]]
               /\ req_pc' = "persisting"
               /\ req_cur' = <<[fork_id |-> f,
                               requesting_agent |-> request.requesting_agent]>>
    /\ UNCHANGED <<notForkTask, clock, completed_queue, comp_pc, sweep_pc,
                   sweep_todo, stop_todo, fork_created, sweep_rec,
                   stop_snapshot>>

\* _create_fork resumes from _persist_fork_metadata: the ForkCreatedEvent is
\* published, unless fetching the connection raised (get_connection is
\* called outside the try of _persist_fork_metadata).
FmPersistDone(ok) ==
    /\ run_pc = "start" /\ req_pc = "persisting"
    /\ req_pc' = "waiting"
    /\ req_cur' = <<>>
    /\ fork_created' = IF ok THEN fork_created \o req_cur ELSE fork_created
    /\ UNCHANGED <<notForkTask, active_forks, ext_forks, clock, request_queue,
                   completed_queue, comp_pc, sweep_pc, sweep_todo, stop_todo,
                   fm_log, sweep_rec, stop_snapshot>>

\* _process_fork_completions, one round: take a completion and run
\* _handle_fork_completion: an unknown fork is ignored, a tracked one is
\* destroyed.
FmCompletion(ok) ==
    /\ run_pc = "start" /\ comp_pc = "waiting"
    /\ completed_queue # <<>>
    /\ completed_queue' = Tail(completed_queue)
    /\ IF ~running
       THEN /\ comp_pc' = "done"
            /\ UNCHANGED <<active_forks, ext_forks>>
       ELSE LET r == destroy_fork(Head(completed_queue).fork_id, ok)
            IN /\ active_forks' = r.active
               /\ ext_forks' = r.ext
               /\ UNCHANGED comp_pc
    /\ UNCHANGED <<notForkTask, clock, request_queue, req_pc, req_cur, sweep_pc,
                   sweep_todo, stop_todo, fm_log, fork_created, sweep_rec,
                   stop_snapshot>>

\* _cleanup_expired_forks wakes from its sleep: now = datetime.now(), and the
\* expired forks are collected.  (A sweep that finds no fork tracked goes
\* back to sleep with nothing changed.)
SweepWake ==
    /\ run_pc = "start" /\ sweep_pc = "sleeping"
    /\ DOMAIN active_forks # {}
    /\ sweep_rec.sweeps < MaxSweeps
    /\ LET expired_forks == {f \in DOMAIN active_forks :
                               expired(clock, active_forks[f])}
       IN /\ sweep_todo' = IdList(expired_forks)
          /\ sweep_pc' = IF expired_forks = {} THEN "sleeping"
                         ELSE "destroying"
    /\ sweep_rec' = [sweeps |-> sweep_rec.sweeps + 1, now |-> clock,
                     found |-> active_forks, results |-> <<>>]
    /\ UNCHANGED <<notForkTask, active_forks, ext_forks, clock, request_queue,
                   completed_queue, req_pc, req_cur, comp_pc, stop_todo, fm_log,
                   fork_created, stop_snapshot>>

\* for fork_id in expired_forks: await self._destroy_fork(fork_id), one fork.
SweepDestroy(ok) ==
    /\ run_pc = "start" /\ sweep_pc = "destroying"
    /\ LET f == Head(sweep_todo)
           r == destroy_fork(f, ok)
       IN /\ active_forks' = r.active
          /\ ext_forks' = r.ext
          /\ sweep_rec' = [sweep_rec EXCEPT
                             !.results = [g \in DOMAIN @ \cup {f} |->
                                            IF g = f THEN r.result ELSE @[g]]]
    /\ sweep_todo' = Tail(sweep_todo)
    /\ sweep_pc' = IF Tail(sweep_todo) = <<>> THEN "sleeping" ELSE "destroying"
    /\ UNCHANGED <<notForkTask, clock, request_queue, completed_queue, req_pc,
                   req_cur, comp_pc, stop_todo, fm_log, fork_created,
                   stop_snapshot>>

\* The task running run() is cancelled while start() waits in gather(): the
\* three loops are cancelled where they wait, and CancelledError leaves
\* start().
FmCancelStart ==
    /\ kind = "fork_manager" /\ run_pc = "start"
    /\ req_pc' = "done"
    /\ req_cur' = <<>>
    /\ comp_pc' = "done"
    /\ sweep_pc' = "done"
    /\ sweep_todo' = <<>>
    /\ LeaveStart("cancelled")
    /\ UNCHANGED <<tradeVars, sideVars, busVars, kind, cons, handled, discarded,
                   active_forks,
                   ext_forks, clock, request_queue, completed_queue, stop_todo,
                   fm_log, fork_created, sweep_rec,
                   stop_snapshot>>

\* stop(): fork_ids = list(self.active_forks.keys())
FmStopBegin ==
    /\ run_pc = "stop_hook" /\ ~stop_todo.begun
    /\ stop_todo' = [begun |-> TRUE, ids |-> IdList(DOMAIN active_forks)]
    /\ stop_snapshot' = DOMAIN active_forks
    /\ UNCHANGED <<notForkTask, active_forks, ext_forks, clock, request_queue,
                   completed_queue, req_pc, req_cur, comp_pc, sweep_pc,
                   sweep_todo, fm_log, fork_created, sweep_rec>>

\* stop(): for fork_id in fork_ids: await self._destroy_fork(fork_id), one
\* fork.
FmStopDestroy(ok) ==
    /\ run_pc = "stop_hook" /\ stop_todo.begun /\ stop_todo.ids # <<>>
    /\ LET r == destroy_fork(Head(stop_todo.ids), ok)
       IN /\ active_forks' = r.active
          /\ ext_forks' = r.ext
    /\ stop_todo' = [stop_todo EXCEPT !.ids = Tail(@)]
    /\ UNCHANGED <<notForkTask, clock, request_queue, completed_queue, req_pc,
                   req_cur, comp_pc, sweep_pc, sweep_todo, fm_log, fork_created,
                   sweep_rec, stop_snapshot>>

\* stop() returns; _cleanup() publishes the stopped event and run() ends with
\* what its except clause re-raised.
FmStopDone ==
    /\ run_pc = "stop_hook" /\ stop_todo.begun /\ stop_todo.ids = <<>>
    /\ trace' = Append(trace, AgentStoppedEvent)
    /\ run_pc' = "done"
    /\ outcome' = on_exit(start_exit).reraise
    /\ UNCHANGED <<busVars, kind, running, hb, hb_cancel, cons, start_exit,
                   handled, discarded, stop_calls, forkVars, tradeVars, sideVars>>

NextFork ==
    \/ FmRunBegin
    \/ \E a \in Requesters, ttl \in TTLs : PublishForkRequest(a, ttl)
    \/ \E f \in ForkIds : PublishForkCompleted(f)
    \/ Tick
    \/ \E how \in CreateOutcomes : FmCreateFork(how)
    \/ \E ok \in BOOLEAN : FmPersistDone(ok)
    \/ \E ok \in BOOLEAN : FmCompletion(ok)
    \/ SweepWake
    \/ \E ok \in BOOLEAN : SweepDestroy(ok)
    \/ HeartbeatStep
    \/ HeartbeatCancelled
    \/ CleanupFinish
    \/ FmCancelStart
    \/ FmStopBegin
    \/ \E ok \in BOOLEAN : FmStopDestroy(ok)
    \/ FmStopDone

SpecFork == InitFork /\ [][NextFork]_vars

\* ---------------------------------------------------------------------------
\* Claims about the fork manager
\* ---------------------------------------------------------------------------

\* The fork manager takes a request off its queue and runs _create_fork.
RequestProcessed ==
    /\ request_queue # <<>>
    /\ request_queue' = Tail(request_queue)
    /\ running

\* C8: the number of Active forks never exceeds max_concurrent_forks, and a
\* request processed while the number equals the maximum is rejected: no
\* external create call, no ForkCreated, the request is gone from the queue
\* and held nowhere else, and active_forks (and what exists at the provider)
\* is as before.
C8_CapacityRespected ==
    /\ Cardinality(DOMAIN active_forks) <= max_concurrent_forks
    /\ [][/\ Cardinality(DOMAIN active_forks') <= max_concurrent_forks
          /\ (RequestProcessed
              /\ Cardinality(DOMAIN active_forks) = max_concurrent_forks)
             => /\ active_forks' = active_forks
                /\ ext_forks' = ext_forks
                /\ fm_log'.create_calls = fm_log.create_calls
                /\ fm_log'.created = fm_log.created
                /\ fm_log'.rejected = fm_log.rejected + 1
                /\ fork_created' = fork_created
                /\ Len(request_queue') = Len(request_queue) - 1
                /\ req_pc' = "waiting"
                /\ req_cur' = <<>>]_vars

\* A request has been rejected and the manager still holds the maximum.
C8_Witness ==
    /\ fm_log.rejected >= 1
    /\ Cardinality(DOMAIN active_forks) = max_concurrent_forks
    /\ fm_log.create_calls = max_concurrent_forks

\* C9: once the fork manager has shut down (stop() has returned and the
\* stopped event is published), every fork that was Active when stop() began
\* is gone from active_forks and deleted at the provider.
C9_NoForkSurvivesShutdown ==
    (kind = "fork_manager" /\ run_pc = "done")
    => /\ DOMAIN active_forks = {}
       /\ stop_snapshot \cap ext_forks = {}

\* The last sweep has gone through all the forks it found expired.
SweepComplete == sweep_rec.sweeps > 0 /\ sweep_pc = "sleeping"

\* The age the last sweep saw fork f at.
SweepAge(f) == sweep_rec.now - sweep_rec.found[f].created_at

\* What holds of the last sweep in every state: it tries to destroy only
\* forks it found older than their ttl, and all of those by its end; a fork
\* it deleted is tracked no more and is gone at the provider.
C10_SweepState ==
    /\ \A f \in DOMAIN sweep_rec.results :
          /\ f \in DOMAIN sweep_rec.found
          /\ SweepAge(f) > sweep_rec.found[f].ttl_seconds
          /\ sweep_rec.results[f] = "deleted"
             => f \notin DOMAIN active_forks /\ f \notin ext_forks
    /\ SweepComplete
       => \A f \in DOMAIN sweep_rec.found :
             SweepAge(f) > sweep_rec.found[f].ttl_seconds
             => f \in DOMAIN sweep_rec.results

\* What holds of every step of a sweep: collecting the expired forks changes
\* no fork; trying to destroy fork f removes f, and only f, iff f was
\* tracked and the external delete succeeded, and leaves a fork whose delete
\* failed tracked as it was.
C10_SweepStep ==
    /\ sweep_rec'.sweeps # sweep_rec.sweeps
       => active_forks' = active_forks /\ ext_forks' = ext_forks
    /\ (sweep_rec'.sweeps = sweep_rec.sweeps
        /\ sweep_rec'.results # sweep_rec.results)
       => \E f \in DOMAIN sweep_rec'.results \ DOMAIN sweep_rec.results :
             LET res == sweep_rec'.results[f]
             IN /\ res = "unknown" <=> f \notin DOMAIN active_forks
                /\ res = "deleted"
                   => /\ active_forks' = [g \in DOMAIN active_forks \ {f} |->
                                            active_forks[g]]
                      /\ ext_forks' = ext_forks \ {f}
                /\ res # "deleted"
                   => active_forks' = active_forks /\ ext_forks' = ext_forks

\* C10 (amended): one TTL sweep tries to destroy an Active fork iff
\* now - created_at is strictly greater than its ttl_seconds (a fork of age
\* ttl - 1 or exactly ttl is left untouched, a fork of age ttl + 1 is tried),
\* and a fork it tries is removed iff it is still tracked and the external
\* delete succeeds; a fork whose delete fails stays tracked as it was.
C10_SweepTriesIffExpired ==
    /\ C10_SweepState
    /\ [][C10_SweepState' /\ C10_SweepStep]_vars

\* A sweep found a fork of age ttl + 1 and deleted it.
C10_Witness ==
    /\ SweepComplete
    /\ \E f \in DOMAIN sweep_rec.found :
          /\ SweepAge(f) = sweep_rec.found[f].ttl_seconds + 1
          /\ f \in DOMAIN sweep_rec.results
          /\ sweep_rec.results[f] = "deleted"
          /\ f \notin DOMAIN active_forks

\* C10 as stated: after one TTL sweep a fork it found is gone iff it was
\* older than its ttl: an expired fork does not survive the sweep, and a
\* fork that is not expired is not touched by it.
C10_SweepDestroysIffExpired ==
    SweepComplete
    => \A f \in DOMAIN sweep_rec.found :
          IF SweepAge(f) > sweep_rec.found[f].ttl_seconds
          THEN f \notin DOMAIN active_forks
          ELSE f \notin DOMAIN sweep_rec.results

\* C11: a failed external delete leaves the fork in active_forks with its
\* metadata unchanged, and nothing stops: in every step a tracked fork
\* either stays tracked as it was and still exists at the provider, or is
\* removed together with its successful external delete; the sweep goes on
\* after a failed delete, and stop() comes to its end.
C11_FailedDeleteKeepsFork ==
    [][/\ \A f \in DOMAIN active_forks :
             \/ /\ f \in DOMAIN active_forks'
                /\ active_forks'[f] = active_forks[f]
                /\ f \in ext_forks'
             \/ /\ f \notin DOMAIN active_forks'
                /\ f \in ext_forks
                /\ f \notin ext_forks'
       /\ \A f \in DOMAIN sweep_rec'.results \ DOMAIN sweep_rec.results :
             sweep_rec'.results[f] = "failed"
             => /\ f \in DOMAIN active_forks'
                /\ sweep_pc' \in {"sleeping", "destroying"}
                /\ run_pc' = "start"]_vars

\* A sweep failed to delete a fork, the fork stayed tracked, and stop()
\* deleted it later.
C11_Witness ==
    /\ run_pc = "done"
    /\ \E f \in DOMAIN sweep_rec.results :
          /\ sweep_rec.results[f] = "failed"
          /\ f \in stop_snapshot
          /\ f \notin DOMAIN active_forks
          /\ f \notin ext_forks

\* ---------------------------------------------------------------------------
\* TradeExecutionAgent (src/agents/execution.py)
\* ---------------------------------------------------------------------------

\* Money and quantities are Decimals in the code; here they are whole
\* numbers of millionths (of a dollar, of a coin), and a trade is taken only
\* if every product and quotient in it is exact in millionths.  Prices are
\* whole dollars per coin.  Slippage is off (config slippage.enabled, default
\* False), so the fill price of a paper trade is the market price.
Unit == 1000000

MaxSignals == 2
MaxAllocations == 1
MaxTicks == 1

initial_capital == 100 * Unit
MinOrder == 10 * Unit
DustQty == Unit \div 10000
position_exit_pct == 50

Strategies == {"momentum"}
Symbols == {"BTCUSDT"}
Prices == {1, 2}
AllocationPcts == {0, 50, 100}
PositionSizePcts == {50, 100}
Sides == {"buy", "sell"}
ExchangeOutcomes ==
    {[kind |-> k, price |-> 0] : k \in {"api_error", "error", "no_fills"}}
    \cup {[kind |-> "filled", price |-> p] : p \in Prices}

\* Paper trading calls no exchange.
PaperReply == [kind |-> "none", price |-> 0]

Min(a, b) == IF a <= b THEN a ELSE b

\* The largest amount the model represents (in millionths); a trade whose
\* value would be larger is left out, like one whose amounts are not exact.
MaxAmount == 500 * Unit
Fits(quantity, price) == quantity <= MaxAmount \div price

\* A fee of 1% of the notional.
fee_of_one_percent(notional) == notional \div 100

\* quantity * fill_price * Decimal('0.001')
fee_of(notional) == notional \div 1000

\* The allocation lookup with a default that lets every strategy trade.
allocation_of_default_full(st) ==
    IF st \in DOMAIN current_allocations THEN current_allocations[st] ELSE 100

\* self.current_allocations.get(strategy_name, 0)
allocation_of(st) ==
    IF st \in DOMAIN current_allocations THEN current_allocations[st] ELSE 0

\* self.initial_capital * (Decimal(str(allocation)) / Decimal('100'))
allocated_capital(a) == (initial_capital \div 100) * a

\* A portfolio that starts with the whole capital whatever the allocation.
get_portfolio_whole_capital(st, a) ==
    IF st \in DOMAIN strategy_portfolios
    THEN strategy_portfolios[st]
    ELSE [cash |-> initial_capital, positions |-> <<>>]

\* _execute_signal: the strategy's portfolio, initialised if absent.
get_portfolio(st, a) ==
    IF st \in DOMAIN strategy_portfolios
    THEN strategy_portfolios[st]
    ELSE [cash |-> allocated_capital(a), positions |-> <<>>]

\* The amount to spend without the cap at the available cash.
cash_to_use_uncapped(pf, a) ==
    (allocated_capital(a) \div 100) * position_size_pct

\* cash_to_use = min(allocated_capital * position_size_pct, portfolio['cash'])
cash_to_use(pf, a) ==
    Min((allocated_capital(a) \div 100) * position_size_pct, pf.cash)

\* positions with `quantity` more of sym (an absent entry starts at 0).
add_position(positions, sym, quantity) ==
    [y \in DOMAIN positions \cup {sym} |->
       IF y = sym
       THEN (IF sym \in DOMAIN positions THEN positions[sym] ELSE 0) + quantity
       ELSE positions[y]]

\* positions with `quantity` less of sym; the entry is deleted only when
\* what is left is less than Decimal('0.0001').
sub_position_below(positions, sym, quantity) ==
    IF positions[sym] - quantity < DustQty
    THEN [y \in DOMAIN positions \ {sym} |-> positions[y]]
    ELSE [positions EXCEPT ![sym] = @ - quantity]

\* positions with `quantity` less of sym; the entry is deleted when what is
\* left is at most Decimal('0.0001').
sub_position(positions, sym, quantity) ==
    IF positions[sym] - quantity <= DustQty
    THEN [y \in DOMAIN positions \ {sym} |-> positions[y]]
    ELSE [positions EXCEPT ![sym] = @ - quantity]

\* The result of a handler that does nothing to portfolio pf.
NoTrade(pf) == [portfolio |-> pf, trade |-> <<>>, error |-> <<>>,
                exact |-> TRUE]

\* A trade the model leaves out (its amounts are not represented).
LeftOut(pf) == [portfolio |-> pf, trade |-> <<>>, error |-> <<>>,
                exact |-> FALSE]

TradeRecord(signal, quantity, price, fee, mode) ==
    [strategy_name |-> signal.strategy_name, symbol |-> signal.symbol,
     side |-> signal.side, quantity |-> quantity, price |-> price,
     fee |-> fee, trade_mode |-> mode]

\* A paper buy that suspends between its two updates: the cash is taken, the
\* position not yet added.
execute_buy_cash_first(signal, pf, a) ==
    LET c == cash_to_use(pf, a)
        market_price == current_prices[signal.symbol]
        quantity == c \div market_price
        notional == quantity * market_price
        fee == fee_of(notional)
    IN IF c < MinOrder
       THEN NoTrade(pf)
       ELSE IF signal.symbol \notin DOMAIN current_prices
       THEN NoTrade(pf)
       ELSE [portfolio |->
               [cash |-> pf.cash - (notional + fee),
                positions |-> pf.positions],
             trade |-> <<TradeRecord(signal, quantity, market_price, fee,
                                     "paper")>>,
             error |-> <<>>,
             exact |-> c % market_price = 0 /\ notional % 1000 = 0]

\* _execute_buy (paper)
execute_buy(signal, pf, a) ==
    LET c == cash_to_use(pf, a)
        market_price == current_prices[signal.symbol]
        quantity == c \div market_price
        notional == quantity * market_price
        fee == fee_of(notional)
    IN IF c < MinOrder
       THEN NoTrade(pf)
       ELSE IF signal.symbol \notin DOMAIN current_prices
       THEN NoTrade(pf)
       ELSE [portfolio |->
               [cash |-> pf.cash - (notional + fee),
                positions |-> add_position(pf.positions, signal.symbol,
                                           quantity)],
             trade |-> <<TradeRecord(signal, quantity, market_price, fee,
                                     "paper")>>,
             error |-> <<>>,
             exact |-> c % market_price = 0 /\ notional % 1000 = 0]

\* _execute_sell (paper)
execute_sell(signal, pf) ==
    LET position_quantity == pf.positions[signal.symbol]
        market_price == current_prices[signal.symbol]
        quantity == (position_quantity \div 100) * position_exit_pct
        notional == quantity * market_price
        fee == fee_of(notional)
    IN IF signal.symbol \notin DOMAIN pf.positions
       THEN NoTrade(pf)
       ELSE IF position_quantity <= 0
       THEN NoTrade(pf)
       ELSE IF signal.symbol \notin DOMAIN current_prices
       THEN NoTrade(pf)
       ELSE IF ~Fits(quantity, market_price)
       THEN LeftOut(pf)
       ELSE [portfolio |->
               [cash |-> pf.cash + (notional - fee),
                positions |-> sub_position(pf.positions, signal.symbol,
                                           quantity)],
             trade |-> <<TradeRecord(signal, quantity, market_price, fee,
                                     "paper")>>,
             error |-> <<>>,
             exact |-> position_quantity % 100 = 0 /\ notional % 1000 = 0]

TradeErrorRecord(signal, error_type) ==
    [strategy_name |-> signal.strategy_name, symbol |-> signal.symbol,
     error_type |-> error_type]

\* _execute_order_real that books the order before the exchange answers.
execute_order_real_eager(signal, quantity, pf, reply) ==
    LET booked == [cash |-> pf.cash - quantity,
                   positions |-> add_position(pf.positions, signal.symbol,
                                              quantity)]
    IN IF reply.kind # "filled"
       THEN [portfolio |-> booked, trade |-> <<>>,
             error |-> <<TradeErrorRecord(signal, "execution_error")>>,
             exact |-> TRUE]
       ELSE IF ~Fits(quantity, reply.price)
       THEN LeftOut(pf)
       ELSE [portfolio |-> booked,
             trade |-> <<TradeRecord(signal, quantity, reply.price,
                                     fee_of(quantity * reply.price), "real")>>,
             error |-> <<>>,
             exact |-> TRUE]

\* _execute_order_real, where the exchange call ends as `reply`: it raises
\* BinanceAPIException or something else, or returns no fills, or reports
\* one fill of the whole quantity at reply.price with a commission of
\* 0.1%.
execute_order_real(signal, quantity, pf, reply) ==
    LET total_qty == quantity
        total_cost == quantity * reply.price
        total_fee == fee_of(total_cost)
    IN IF reply.kind = "api_error"
       THEN [portfolio |-> pf, trade |-> <<>>,
             error |-> <<TradeErrorRecord(signal, "binance_api_error")>>,
             exact |-> TRUE]
       ELSE IF reply.kind \in {"error", "no_fills"}
       THEN [portfolio |-> pf, trade |-> <<>>,
             error |-> <<TradeErrorRecord(signal, "execution_error")>>,
             exact |-> TRUE]
       ELSE IF ~Fits(total_qty, reply.price)
       THEN LeftOut(pf)
       ELSE [portfolio |->
               IF signal.side = "buy"
               THEN [cash |-> pf.cash - (total_cost + total_fee),
                     positions |-> add_position(pf.positions, signal.symbol,
                                                total_qty)]
               ELSE [cash |-> pf.cash + (total_cost - total_fee),
                     positions |-> sub_position(pf.positions, signal.symbol,
                                                total_qty)],
             trade |-> <<TradeRecord(signal, total_qty, reply.price,
                                     total_fee, "real")>>,
             error |-> <<>>,
             exact |-> total_cost % 1000 = 0]

\* _execute_signal in real mode, buy: the quantity is worked out as for a
\* paper buy and the order is sent.
real_buy(signal, pf, a, reply) ==
    LET c == cash_to_use(pf, a)
        market_price == current_prices[signal.symbol]
        quantity == c \div market_price
        r == execute_order_real(signal, quantity, pf, reply)
    IN IF c < MinOrder
       THEN NoTrade(pf)
       ELSE IF signal.symbol \notin DOMAIN current_prices
       THEN NoTrade(pf)
       ELSE [r EXCEPT !.exact = @ /\ c % market_price = 0]

\* _execute_signal in real mode, sell.
real_sell(signal, pf, reply) ==
    LET position_quantity == pf.positions[signal.symbol]
        quantity == (position_quantity \div 100) * position_exit_pct
        r == execute_order_real(signal, quantity, pf, reply)
    IN IF signal.symbol \notin DOMAIN pf.positions
       THEN NoTrade(pf)
       ELSE IF position_quantity <= 0
       THEN NoTrade(pf)
       ELSE [r EXCEPT !.exact = @ /\ position_quantity % 100 = 0]

\* _execute_signal: a signal of a strategy without allocation is skipped;
\* else the portfolio is fetched or initialised and the trade is routed by
\* mode and side.
execute_signal(signal, reply) ==
    LET st == signal.strategy_name
        a == allocation_of(st)
        pf == get_portfolio(st, a)
        r == IF trade_mode = "paper"
             THEN IF signal.side = "buy" THEN execute_buy(signal, pf, a)
                  ELSE execute_sell(signal, pf)
             ELSE IF signal.side = "buy"
                  THEN real_buy(signal, pf, a, reply)
                  ELSE real_sell(signal, pf, reply)
    IN IF a = 0
       THEN [portfolios |-> strategy_portfolios, trade |-> <<>>,
             error |-> <<>>, exact |-> TRUE]
       ELSE [portfolios |->
               [x \in DOMAIN strategy_portfolios \cup {st} |->
                  IF x = st THEN r.portfolio ELSE strategy_portfolios[x]],
             trade |-> r.trade, error |-> r.error, exact |-> r.exact]

\* ---------------------------------------------------------------------------
\* RiskMonitorAgent (src/agents/risk_monitor.py): the daily loss limit
\* ---------------------------------------------------------------------------

\* Portfolio values are whole dollars here, and positive.
MaxChecks == 2
MaxDays == 1

initial_portfolio_value == 100
max_daily_loss_pct == 5
PortfolioValues == {94, 95, 96}

\* What _get_current_portfolio_value returns: a value, or None on an error.
ValueReplies ==
    {[ok |-> FALSE, value |-> 0]}
    \cup {[ok |-> TRUE, value |-> v] : v \in PortfolioValues}

\* The replies that show a breach of the limit against the initial value.
BreachReplies == {[ok |-> TRUE, value |-> 94]}

\* The limit test of _check_daily_loss, not strict.
loss_at_limit(current_value, start) ==
    (current_value - start) * 100 <= (0 - max_daily_loss_pct) * start

\* _check_daily_loss: daily_loss_pct = (daily_pnl / daily_start_value) * 100;
\* daily_loss_pct < -self.max_daily_loss_pct (the start value is positive, so
\* the division keeps the direction of the comparison).
loss_exceeds_limit(current_value, start) ==
    (current_value - start) * 100 < (0 - max_daily_loss_pct) * start

\* daily_loss_pct < -(self.max_daily_loss_pct * self.warning_threshold),
\* where warning_threshold is Decimal('0.8').
loss_exceeds_warning(current_value, start) ==
    (current_value - start) * 1000 < (0 - max_daily_loss_pct * 8) * start

\* A constructed risk monitor whose start() has initialised the daily
\* tracking, with the value found or, on an error, the initial value.
InitRiskMonitor ==
    /\ halt_active = FALSE
    /\ daily_start_value \in PortfolioValues \cup {initial_portfolio_value}
    /\ risk_day = 0
    /\ emergency_halts = 0
    /\ last_check = [checks |-> 0, seen |-> 0, did |-> "none"]

\* What a step of the risk monitor leaves as it is.
notRisk == <<busVars, agentVars, forkVars, execVars, sideVars>>

\* The breach branch with the test of halt_active left out.
on_breach_republish(active) == "halt"

\* _check_daily_loss on a breach: `if not self.halt_active:` sets the flag
\* and publishes EmergencyHaltEvent; with the flag set nothing is done.
on_breach(active) == IF active THEN "halted_already" ELSE "halt"

\* _check_daily_loss, where _get_current_portfolio_value returns `reply`.
RiskDailyLoss(reply) ==
    /\ last_check.checks < MaxChecks
    /\ LET did == IF ~reply.ok THEN "unavailable"
                  ELSE IF loss_exceeds_limit(reply.value, daily_start_value)
                  THEN on_breach(halt_active)
                  ELSE IF loss_exceeds_warning(reply.value, daily_start_value)
                  THEN "warning"
                  ELSE "none"
       IN /\ last_check' = [checks |-> last_check.checks + 1,
                            seen |-> reply.value, did |-> did]
          /\ halt_active' = (halt_active \/ did = "halt")
          /\ emergency_halts' = emergency_halts + (IF did = "halt" THEN 1 ELSE 0)
    /\ UNCHANGED <<daily_start_value, risk_day, notRisk>>

\* _check_daily_reset on a new day: _initialize_daily_tracking, where
\* _get_current_portfolio_value returns `reply`, and the halt is reset; what
\* the reset read is recorded.
RiskDailyReset(reply) ==
    /\ risk_day < MaxDays
    /\ risk_day' = risk_day + 1
    /\ daily_start_value' = IF reply.ok THEN reply.value
                            ELSE initial_portfolio_value
    /\ halt_active' = FALSE
    /\ last_check' = [checks |-> last_check.checks, seen |-> reply.value,
                      did |-> "reset"]
    /\ UNCHANGED <<emergency_halts, notRisk>>

\* _check_daily_reset on a new day with the pool giving no connection:
\* _initialize_daily_tracking has set daily_start_time to today when
\* db.get_connection(), outside the try block of
\* _get_current_portfolio_value, raises; the exception leaves
\* _check_daily_reset before the halt is reset and _periodic_checks logs it.
\* The day counts as begun, and neither the value nor the halt is reset.
RiskDailyResetRaises ==
    /\ risk_day < MaxDays
    /\ risk_day' = risk_day + 1
    /\ UNCHANGED <<daily_start_value, halt_active, emergency_halts,
                   last_check, notRisk>>

NextRisk ==
    \/ \E reply \in ValueReplies : RiskDailyLoss(reply)
    \/ \E reply \in ValueReplies : RiskDailyReset(reply)
    \/ RiskDailyResetRaises

InitRisk ==
    /\ InitBus /\ NoAgent /\ NoForkManager /\ NoSide
    /\ trade_mode = "paper"
    /\ position_size_pct = 0
    /\ current_allocations = <<>>
    /\ current_prices = <<>>
    /\ strategy_portfolios = <<>>
    /\ signal_queue = <<>>
    /\ allocation_queue = <<>>
    /\ market_queue = <<>>
    /\ sig_pc = "waiting"
    /\ pending_trade = <<>>
    /\ trade_executed = <<>>
    /\ trade_errors = <<>>
    /\ exec_log = [signals |-> 0, allocations |-> 0, ticks |-> 0]
    /\ InitRiskMonitor

SpecRisk == InitRisk /\ [][NextRisk]_vars

\* C14: a daily-loss check publishes EmergencyHalt and sets halt_active
\* exactly when the value it sees is strictly below
\* daily_start_value * (1 - max_daily_loss_pct/100) and no halt is active;
\* otherwise it publishes no EmergencyHalt and leaves halt_active as it is.
C14_HaltExactlyBelowThreshold ==
    [][last_check'.checks = last_check.checks + 1
       => LET below == /\ last_check'.did # "unavailable"
                       /\ last_check'.seen * 100
                            < daily_start_value * (100 - max_daily_loss_pct)
          IN IF below /\ ~halt_active
             THEN halt_active' /\ emergency_halts' = emergency_halts + 1
             ELSE /\ halt_active' = halt_active
                  /\ emergency_halts' = emergency_halts]_vars

\* A check saw a value below the threshold and raised the halt, after a
\* check that saw the value at the threshold had not.
C14_Witness ==
    /\ last_check.checks = 2
    /\ last_check.did = "halt"
    /\ last_check.seen * 100 < daily_start_value * (100 - max_daily_loss_pct)
    /\ halt_active
    /\ emergency_halts = 1

\* ---------------------------------------------------------------------------
\* The execution agent's tasks
\* ---------------------------------------------------------------------------

\* What a step of the execution agent leaves as it is.
notExec == <<busVars, agentVars, forkVars, riskVars, sideVars, trade_mode,
             position_size_pct>>

\* A strategy publishes a TradingSignalEvent.
PublishSignal(st, sym, side) ==
    /\ exec_log.signals < MaxSignals
    /\ exec_log' = [exec_log EXCEPT !.signals = @ + 1]
    /\ signal_queue' =
          put_nowait(signal_queue,
                     [strategy_name |-> st, symbol |-> sym, side |-> side]).content
    /\ UNCHANGED <<notExec, current_allocations, current_prices,
                   strategy_portfolios, allocation_queue, market_queue, sig_pc,
                   pending_trade, trade_executed, trade_errors>>

\* The meta-strategy publishes an AllocationEvent.
PublishAllocation(allocations) ==
    /\ exec_log.allocations < MaxAllocations
    /\ exec_log' = [exec_log EXCEPT !.allocations = @ + 1]
    /\ allocation_queue' =
          put_nowait(allocation_queue, [allocations |-> allocations]).content
    /\ UNCHANGED <<notExec, current_allocations, current_prices,
                   strategy_portfolios, signal_queue, market_queue, sig_pc,
                   pending_trade, trade_executed, trade_errors>>

\* The market data agent publishes a MarketTickEvent.
PublishTick(sym, price) ==
    /\ exec_log.ticks < MaxTicks
    /\ exec_log' = [exec_log EXCEPT !.ticks = @ + 1]
    /\ market_queue' =
          put_nowait(market_queue, [symbol |-> sym, price |-> price]).content
    /\ UNCHANGED <<notExec, current_allocations, current_prices,
                   strategy_portfolios, signal_queue, allocation_queue, sig_pc,
                   pending_trade, trade_executed, trade_errors>>

\* _process_allocations, one round.
ProcessAllocation ==
    /\ allocation_queue # <<>>
    /\ allocation_queue' = Tail(allocation_queue)
    /\ current_allocations' = Head(allocation_queue).allocations
    /\ UNCHANGED <<notExec, current_prices, strategy_portfolios, signal_queue,
                   market_queue, sig_pc, pending_trade, trade_executed,
                   trade_errors, exec_log>>

\* _track_prices, one round.
TrackPrice ==
    /\ market_queue # <<>>
    /\ market_queue' = Tail(market_queue)
    /\ LET tick == Head(market_queue)
       IN current_prices' =
             [y \in DOMAIN current_prices \cup {tick.symbol} |->
                IF y = tick.symbol THEN tick.price ELSE current_prices[y]]
    /\ UNCHANGED <<notExec, current_allocations, strategy_portfolios,
                   signal_queue, allocation_queue, sig_pc, pending_trade,
                   trade_executed, trade_errors, exec_log>>

\* _process_signals, one round up to its next suspension: take a signal and
\* run _execute_signal; a real order that fails publishes its TradeErrorEvent
\* at once; a trade that was made suspends in _persist_trade.
ExecuteSignal(reply) ==
    /\ reply = PaperReply <=> trade_mode = "paper"
    /\ sig_pc = "waiting"
    /\ signal_queue # <<>>
    /\ signal_queue' = Tail(signal_queue)
    /\ LET r == execute_signal(Head(signal_queue), reply)
       IN /\ r.exact
          /\ strategy_portfolios' = r.portfolios
          /\ trade_errors' = trade_errors \o r.error
          /\ pending_trade' = r.trade
          /\ sig_pc' = IF r.trade = <<>> THEN "waiting" ELSE "persisting"
    /\ UNCHANGED <<notExec, current_allocations, current_prices,
                   allocation_queue, market_queue, trade_executed, exec_log>>

\* _execute_* resumes from _persist_trade (a failure to persist is logged)
\* and publishes the TradeExecutedEvent.
TradePersisted ==
    /\ sig_pc = "persisting"
    /\ sig_pc' = "waiting"
    /\ trade_executed' = trade_executed \o pending_trade
    /\ pending_trade' = <<>>
    /\ UNCHANGED <<notExec, current_allocations, current_prices,
                   strategy_portfolios, signal_queue, allocation_queue,
                   market_queue, trade_errors, exec_log>>

\* An execution agent inside start(), subscribed, with nothing received yet;
\* beside it a risk monitor.
InitExec ==
    /\ InitBus /\ NoAgent /\ NoForkManager /\ NoSide
    /\ trade_mode \in {"paper", "real"}
    /\ position_size_pct \in PositionSizePcts
    /\ current_allocations = <<>>
    /\ current_prices = <<>>
    /\ strategy_portfolios = <<>>
    /\ signal_queue = <<>>
    /\ allocation_queue = <<>>
    /\ market_queue = <<>>
    /\ sig_pc = "waiting"
    /\ pending_trade = <<>>
    /\ trade_executed = <<>>
    /\ trade_errors = <<>>
    /\ exec_log = [signals |-> 0, allocations |-> 0, ticks |-> 0]
    /\ halt_active = FALSE
    /\ daily_start_value = initial_portfolio_value
    /\ risk_day = 0
    /\ emergency_halts = 0
    /\ last_check = [checks |-> 0, seen |-> 0, did |-> "none"]

NextExec ==
    \/ \E st \in Strategies, sym \in Symbols, side \in Sides :
          PublishSignal(st, sym, side)
    \/ \E al \in [Strategies -> AllocationPcts] : PublishAllocation(al)
    \/ \E sym \in Symbols, price \in Prices : PublishTick(sym, price)
    \/ ProcessAllocation
    \/ TrackPrice
    \/ \E reply \in ExchangeOutcomes \cup {PaperReply} : ExecuteSignal(reply)
    \/ TradePersisted
    \/ \E reply \in BreachReplies : RiskDailyLoss(reply)

SpecExec == InitExec /\ [][NextExec]_vars

\* ---------------------------------------------------------------------------
\* Claims about the execution agent
\* ---------------------------------------------------------------------------

\* The signal the execution agent takes next, and the portfolio it finds or
\* initialises for it.
NextSignal == Head(signal_queue)
NextPortfolio ==
    get_portfolio(NextSignal.strategy_name,
                  allocation_of(NextSignal.strategy_name))

\* The execution agent takes a signal off its queue.
SignalProcessed ==
    /\ sig_pc = "waiting"
    /\ signal_queue # <<>>
    /\ signal_queue' = Tail(signal_queue)

\* C12: every strategy portfolio's cash is greater than or equal to zero.
C12_CashNonNegative ==
    \A st \in DOMAIN strategy_portfolios : strategy_portfolios[st].cash >= 0

\* C13: while the risk monitor's halt is active the execution agent
\* executes no trade: a signal it takes changes the cash and positions of no
\* portfolio and leads to no TradeExecuted.
C13_NoTradeWhileHalted ==
    [][(halt_active /\ SignalProcessed)
       => /\ pending_trade' = <<>>
          /\ \A st \in DOMAIN strategy_portfolios :
                strategy_portfolios'[st] = strategy_portfolios[st]
          /\ \A st \in DOMAIN strategy_portfolios' :
                strategy_portfolios'[st] = get_portfolio(st, allocation_of(st))
         ]_vars

\* In real mode the next signal gets as far as the exchange call.
RealOrderSent ==
    LET st == NextSignal.strategy_name
        sym == NextSignal.symbol
    IN /\ trade_mode = "real"
       /\ st \in DOMAIN current_allocations
       /\ current_allocations[st] # 0
       /\ IF NextSignal.side = "buy"
          THEN /\ cash_to_use(NextPortfolio, current_allocations[st]) >= MinOrder
               /\ sym \in DOMAIN current_prices
          ELSE /\ sym \in DOMAIN NextPortfolio.positions
               /\ NextPortfolio.positions[sym] > 0

C16_SignalWithoutAllocationIgnored ==
    [][(/\ SignalProcessed
        /\ \/ NextSignal.strategy_name \notin DOMAIN current_allocations
           \/ current_allocations[NextSignal.strategy_name] = 0)
       => /\ strategy_portfolios' = strategy_portfolios
          /\ trade_executed' = trade_executed
          /\ trade_errors' = trade_errors
          /\ pending_trade' = pending_trade
          /\ sig_pc' = "waiting"
          /\ current_allocations' = current_allocations
          /\ current_prices' = current_prices]_vars

\* A signal that came before any Allocation event has been taken and
\* ignored, with a price known.
C16_Witness ==
    /\ exec_log.signals = 1
    /\ exec_log.allocations = 0
    /\ signal_queue = <<>>
    /\ DOMAIN current_prices # {}
    /\ strategy_portfolios = <<>>
    /\ trade_executed = <<>>
    /\ trade_errors = <<>>

(***************************************************************************)
(* Claims about unsubscribe and close.                                     *)
(***************************************************************************)
\* The queues that are in the list of some class.
AllRegistered == UNION {Registered(t) : t \in EventTypes}

\* The queues that were created and are in no list (any more).
Orphans == Created \ AllRegistered

\* C17: unsubscribe(T, q) for a queue q registered for T removes exactly q:
\* the list of T gets shorter by one and keeps the other queues in their
\* order, the other lists and all queue contents stay; from then on q is in
\* no list, no publish call changes it, and a publish of a T event still
\* appends the event to every other queue registered for T that is not full.
C17_UnsubscribeRemovesExactlyOne ==
    [][/\ \A t \in EventTypes, q \in Created :
            (q \in Registered(t) /\ Unsubscribe(t, q)) =>
                /\ Len(subscribers'[t]) = Len(subscribers[t]) - 1
                /\ subscribers'[t] = SelectSeq(subscribers[t], LAMBDA x : x # q)
                /\ \A u \in EventTypes \ {t} : subscribers'[u] = subscribers[u]
                /\ queues' = queues
       /\ \A q \in Orphans :
            /\ \A t \in EventTypes : q \notin Range(subscribers'[t])
            /\ calls' # calls => queues'[q] = queues[q]
       /\ Len(calls') = Len(calls) + 1 =>
            LET e == calls'[Len(calls')].ev
            IN \A q \in Registered(e.type) :
                   Len(queues[q]) < max_queue_size
                   => queues'[q] = Append(queues[q], e)
      ]_vars

\* C17 witness: an event reached two queues of one class, one of them was
\* then unsubscribed, and a later event of that class reached the other one
\* only.
C17_Witness ==
    \E t \in EventTypes : \E q \in Orphans : \E p \in Registered(t) :
        \E j \in 1..Len(calls) : \E i \in 1..Len(calls) :
            /\ j < i
            /\ calls[j].ev.type = t /\ calls[j].targets = {q, p}
            /\ calls[i].ev.type = t /\ calls[i].targets = {p}
            /\ p \notin calls[i].full
            /\ \A k \in 1..Len(queues[q]) : queues[q][k] # calls[i].ev
            /\ \A k \in 1..Len(consumed[q]) : consumed[q][k] # calls[i].ev

\* C18: unsubscribe(T, q) for a queue q that is not in the list of T (removed
\* before, registered for another class only, or T has no subscriber at all)
\* completes and changes nothing: not the registry, not any queue.
C18_UnsubscribeIdempotent ==
    \A t \in EventTypes : \A q \in Created :
        q \notin Registered(t) =>
            /\ ListRemove(subscribers[t], q) = subscribers[t]
            /\ ENABLED (Unsubscribe(t, q) /\ busVars' = busVars)

\* C18 witness: a queue that was unsubscribed while another queue of its
\* class stayed registered and holds an event, and the other class has no
\* subscriber: unsubscribing it again from either class is possible.
C18_Witness ==
    \E t \in EventTypes : \E q \in Orphans : \E p \in Registered(t) :
        /\ \E j \in 1..Len(calls) : calls[j].targets = {q, p}
        /\ queues[p] # <<>>
        /\ \A u \in EventTypes \ {t} : subscribers[u] = <<>>
        /\ \A u \in EventTypes : ENABLED Unsubscribe(u, q)

\* C19: close() leaves every queue that was registered empty and every list
\* of the registry empty; a queue that is in no list stays in no list, and
\* no publish call made afterwards puts anything into it.
C19_CloseEmptiesEverything ==
    [][/\ Close =>
            /\ \A q \in AllRegistered : queues'[q] = <<>>
            /\ \A t \in EventTypes : subscribers'[t] = <<>>
            /\ \A q \in Created \ AllRegistered : queues'[q] = queues[q]
            /\ Created \subseteq Orphans'
       /\ \A q \in Created :
            drained[q] # <<>> =>
                /\ q \in Orphans /\ q \in Orphans'
                /\ Len(queues'[q]) <= Len(queues[q])
                /\ calls' # calls => queues'[q] = queues[q]
      ]_vars

\* C19 witness: close() discarded events from a queue, and an event of that
\* queue's class was published afterwards and reached no queue; the queue is
\* empty and the registry is empty.
C19_Witness ==
    \E q \in Created :
        /\ drained[q] # <<>>
        /\ queues[q] = <<>>
        /\ \A t \in EventTypes : subscribers[t] = <<>>
        /\ \E i \in 1..Len(calls) :
              /\ calls[i].ev.type = drained[q][1].type
              /\ calls[i].ev.id > drained[q][Len(drained[q])].id
              /\ calls[i].targets = {}

\* C20: once close() has run (it discarded events from some queue), the
\* instance delivers nothing any more: no publish call changes any queue,
\* whether the queue was created before or after the close.
C20_ClosedBusDeliversNothing ==
    [][((\E q \in Created : drained[q] # <<>>) /\ calls' # calls)
           => queues' = queues]_vars

(***************************************************************************)
(* Claims about the publish counter.                                       *)
(***************************************************************************)
\* C21: published_count equals the number of publish calls made so far:
\* every call adds exactly one, also a call for a class without subscribers
\* and a call whose event every registered queue dropped.
C21_PublishedCountCountsCalls == published_count = Len(calls)

(***************************************************************************)
(* Several tasks publishing on one bus.                                    *)
(*                                                                         *)
(* publish() contains no await that suspends (put_nowait, a counter, log   *)
(* calls), so a call made by one task runs to its end before any other     *)
(* task runs; the tasks interleave call by call.                           *)
(***************************************************************************)
\* The tasks that call publish.
Publishers == {"p1", "p2"}

\* How many publish calls task p has made.
CallsOf(p) == Cardinality({i \in 1..Len(calls) : calls[i].ev.pub = p})

\* Task p awaits bus.publish(event) for its next event, of class t.
PublishBy(p, t) ==
    /\ Len(calls) < MaxPublish
    /\ LET e == [type |-> t, id |-> Len(calls) + 1,
                 pub |-> p, seq |-> CallsOf(p) + 1]
           before == PublishState(queues, published_count, publish_result)
           st == publish(before, subscribers, e)
       IN /\ queues' = st.queues
          /\ published_count' = st.count
          /\ publish_result' = st.result
          /\ calls' = calls \o CallRecords(before, subscribers, <<e>>)
    /\ UNCHANGED <<subscribers, consumed, drained, notBus>>

NextConcurrent ==
    \/ \E t \in EventTypes : Subscribe(t)
    \/ \E p \in Publishers, t \in EventTypes : PublishBy(p, t)
    \/ \E q \in QueueIds : Consume(q)

SpecConcurrent == Init /\ [][NextConcurrent]_vars

\* What queue q received so far, oldest first.
Received(q) == consumed[q] \o queues[q]

\* The events published for queue q: those of calls that found q registered.
PublishedFor(q) == {calls[i].ev : i \in {j \in 1..Len(calls) : q \in calls[j].targets}}

\* Queue q had room at every call made for it.
NeverFull(q) == \A i \in 1..Len(calls) : q \notin calls[i].full

\* C22: with several tasks publishing concurrently, a queue that had room at
\* every call received every event published for it exactly once and nothing
\* else, and the events of one task appear in it in that task's publish order.
C22_ConcurrentPublishLosesNothing ==
    \A q \in Created :
        NeverFull(q) =>
            LET r == Received(q)
            IN /\ \A e \in PublishedFor(q) :
                     Cardinality({k \in 1..Len(r) : r[k] = e}) = 1
               /\ Len(r) = Cardinality(PublishedFor(q))
               /\ \A k \in 1..Len(r) : \A l \in 1..Len(r) :
                     (k < l /\ r[k].pub = r[l].pub) => r[k].seq < r[l].seq

\* C22 witness: a queue that never was full received three events, the
\* second task's event between the two of the first task.
C22_Witness ==
    \E q \in Created :
        /\ NeverFull(q)
        /\ Len(Received(q)) >= 3
        /\ Received(q)[1].pub = "p1" /\ Received(q)[2].pub = "p2"
        /\ Received(q)[3].pub = "p1" /\ Received(q)[3].seq = 2

(***************************************************************************)
(* The execution agent in paper mode, with prices and allocations that     *)
(* reach the minimum order size and the dust threshold.                    *)
(***************************************************************************)
\* At 50000 a minimum order of 10 buys 0.0002; at 100000 it buys 0.0001.
PaperPrices == {1, 50000, 100000}
PaperAllocationPcts == {0, 20, 100}

\* A paper-mode agent inside start(); it may have received an Allocation
\* event already.
InitPaper ==
    /\ InitBus /\ NoAgent /\ NoForkManager /\ NoSide
    /\ trade_mode = "paper"
    /\ position_size_pct \in PositionSizePcts
    /\ current_allocations \in {<<>>} \cup [Strategies -> PaperAllocationPcts]
    /\ current_prices = <<>>
    /\ strategy_portfolios = <<>>
    /\ signal_queue = <<>>
    /\ allocation_queue = <<>>
    /\ market_queue = <<>>
    /\ sig_pc = "waiting"
    /\ pending_trade = <<>>
    /\ trade_executed = <<>>
    /\ trade_errors = <<>>
    /\ exec_log = [signals |-> 0, allocations |-> 0, ticks |-> 0]
    /\ halt_active = FALSE
    /\ daily_start_value = initial_portfolio_value
    /\ risk_day = 0
    /\ emergency_halts = 0
    /\ last_check = [checks |-> 0, seen |-> 0, did |-> "none"]

NextPaper ==
    \/ \E st \in Strategies, sym \in Symbols, side \in Sides :
          PublishSignal(st, sym, side)
    \/ \E al \in [Strategies -> PaperAllocationPcts] : PublishAllocation(al)
    \/ \E sym \in Symbols, price \in PaperPrices : PublishTick(sym, price)
    \/ ProcessAllocation
    \/ TrackPrice
    \/ ExecuteSignal(PaperReply)
    \/ TradePersisted

SpecPaper == InitPaper /\ [][NextPaper]_vars

(***************************************************************************)
(* Claims about paper trades.                                              *)
(***************************************************************************)
\* The quantity the next signal's portfolio holds of the signal's symbol.
HeldBefore ==
    IF NextSignal.symbol \in DOMAIN NextPortfolio.positions
    THEN NextPortfolio.positions[NextSignal.symbol] ELSE 0

\* The same after the step (0 when there is no entry).
HeldAfter ==
    LET after == strategy_portfolios'[NextSignal.strategy_name]
    IN IF NextSignal.symbol \in DOMAIN after.positions
       THEN after.positions[NextSignal.symbol] ELSE 0

\* The agent takes a signal of the given side in paper mode and makes a trade.
PaperTradeMade(side) ==
    /\ SignalProcessed
    /\ trade_mode = "paper"
    /\ NextSignal.side = side
    /\ pending_trade' # <<>>

\* min(initial_capital * allocation_pct * position_size_pct, available cash)
\* for the next signal.
Spend ==
    Min((initial_capital \div 10000)
            * current_allocations[NextSignal.strategy_name] * position_size_pct,
        NextPortfolio.cash)

\* C23: an executed paper buy with spend s = min(initial_capital x
\* allocation x position size, available cash) at fill price p adds exactly
\* s/p to the symbol's position (creating the entry if absent), takes exactly
\* s plus a fee of 0.1% of s from the cash, and publishes exactly one
\* TradeExecuted with quantity s/p, price p and that fee.
C23_PaperBuyAmounts ==
    [][/\ PaperTradeMade("buy") =>
            LET st == NextSignal.strategy_name
                sym == NextSignal.symbol
                p == current_prices[sym]
                t == pending_trade'[1]
                after == strategy_portfolios'[st]
            IN /\ Len(pending_trade') = 1
               /\ t.quantity * p = Spend
               /\ t.price = p
               /\ t.fee * 1000 = Spend
               /\ t.side = "buy" /\ t.symbol = sym /\ t.strategy_name = st
               /\ t.trade_mode = "paper"
               /\ sym \in DOMAIN after.positions
               /\ after.positions[sym] = HeldBefore + t.quantity
               /\ after.cash = NextPortfolio.cash - Spend - t.fee
               /\ sig_pc' = "persisting"
               /\ trade_executed' = trade_executed
       /\ (sig_pc = "persisting" /\ sig_pc' = "waiting") =>
            /\ Len(pending_trade) = 1
            /\ trade_executed' = Append(trade_executed, pending_trade[1])
            /\ strategy_portfolios' = strategy_portfolios
      ]_vars

\* C23 witness: two paper buys were executed and published, the second one
\* with its spend capped at the cash the first one left.
C23_Witness ==
    /\ trade_mode = "paper"
    /\ Len(trade_executed) = 2
    /\ trade_executed[1].side = "buy" /\ trade_executed[2].side = "buy"
    /\ trade_executed[2].quantity * trade_executed[2].price
         < trade_executed[1].quantity * trade_executed[1].price
    /\ \E st \in DOMAIN strategy_portfolios : \E sym \in Symbols :
         /\ sym \in DOMAIN strategy_portfolios[st].positions
         /\ strategy_portfolios[st].positions[sym]
              = trade_executed[1].quantity + trade_executed[2].quantity

\* What a paper sell does up to the removal of the entry: it sells
\* position_qty x position_exit_pct at the market price, and the cash grows
\* by quantity x price minus a fee of 0.1%; one TradeExecuted follows.
PaperSellAmounts ==
    LET st == NextSignal.strategy_name
        sym == NextSignal.symbol
        p == current_prices[sym]
        t == pending_trade'[1]
        after == strategy_portfolios'[st]
    IN /\ Len(pending_trade') = 1
       /\ t.quantity % position_exit_pct = 0
       /\ (t.quantity \div position_exit_pct) * 100 = HeldBefore
       /\ t.price = p
       /\ t.fee * 1000 = t.quantity * p
       /\ t.side = "sell" /\ t.symbol = sym /\ t.strategy_name = st
       /\ after.cash = NextPortfolio.cash + t.quantity * p - t.fee
       /\ HeldAfter = IF sym \in DOMAIN after.positions
                      THEN HeldBefore - t.quantity ELSE 0
       /\ \A y \in DOMAIN NextPortfolio.positions \ {sym} :
             y \in DOMAIN after.positions
             /\ after.positions[y] = NextPortfolio.positions[y]

\* No tracked position quantity is negative.
PositionsNonNegative ==
    \A st \in DOMAIN strategy_portfolios :
        \A sym \in DOMAIN strategy_portfolios[st].positions :
            strategy_portfolios[st].positions[sym] >= 0

NextAllocated ==
    /\ NextSignal.strategy_name \in DOMAIN current_allocations
    /\ current_allocations[NextSignal.strategy_name] # 0

\* C25: a portfolio comes into being only in the step that processes a signal
\* of its strategy while the strategy's allocation is non-zero, and it starts
\* with cash initial_capital x allocation / 100 and no positions (a buy made
\* for that same signal is taken from this start); each such signal leaves
\* the strategy with a portfolio; an existing portfolio changes only in a step
\* that makes a trade for its strategy, and never when an Allocation event is
\* applied.
C25_PortfolioCreatedOnFirstSignal ==
    [][/\ \A st \in DOMAIN strategy_portfolios' \ DOMAIN strategy_portfolios :
            /\ SignalProcessed
            /\ NextSignal.strategy_name = st
            /\ NextAllocated
            /\ LET start == (initial_capital \div 100) * current_allocations[st]
                   made == strategy_portfolios'[st]
               IN IF pending_trade' = <<>>
                  THEN made = [cash |-> start, positions |-> <<>>]
                  ELSE LET t == pending_trade'[1]
                       IN /\ t.side = "buy"
                          /\ made.cash = start - t.quantity * t.price - t.fee
                          /\ DOMAIN made.positions = {t.symbol}
                          /\ made.positions[t.symbol] = t.quantity
       /\ (SignalProcessed /\ NextAllocated)
            => NextSignal.strategy_name \in DOMAIN strategy_portfolios'
       /\ \A st \in DOMAIN strategy_portfolios :
            /\ st \in DOMAIN strategy_portfolios'
            /\ strategy_portfolios'[st] # strategy_portfolios[st]
                 => /\ SignalProcessed
                    /\ NextSignal.strategy_name = st
                    /\ pending_trade' # <<>>
       /\ current_allocations' # current_allocations
            => strategy_portfolios' = strategy_portfolios
      ]_vars

\* C25 witness: a portfolio was created at an allocation of 20, made a buy,
\* and an Allocation event then set the allocation to 100: cash and position
\* are still what the buy left of the 20.
C25_Witness ==
    \E st \in DOMAIN strategy_portfolios :
        /\ st \in DOMAIN current_allocations
        /\ current_allocations[st] = 100
        /\ exec_log.allocations = 1
        /\ allocation_queue = <<>>
        /\ Len(trade_executed) = 1
        /\ LET t == trade_executed[1]
           IN /\ t.side = "buy"
              /\ strategy_portfolios[st].cash
                   = (initial_capital \div 100) * 20 - t.quantity * t.price - t.fee
              /\ strategy_portfolios[st].positions[t.symbol] = t.quantity

(***************************************************************************)
(* DatabaseManager (src/core/database.py): the connection pool, the query  *)
(* helpers and the transaction wrapper.                                    *)
(***************************************************************************)
\* DatabaseManager(pool_max_size=...): acquire() waits while that many
\* connections are checked out.
pool_max_size == 2
\* How many operations the callers begin in one behaviour.
MaxDbOps == 3

\* The tasks that use the database manager.
Callers == {"c1", "c2"}

\* The connections that are checked out: acquired and not released.
CheckedOut == {i \in 1..Len(db.conns) : db.conns[i].releases = 0}

OpsBegun == Len(db.conns) + db.failed

notDb == <<busVars, agentVars, forkVars, tradeVars, periodic, system>>

\* Two tasks hold the initialized manager; no operation was begun.
InitDb ==
    /\ InitBus /\ NoAgent /\ NoForkManager /\ NoTrading
    /\ NoPeriodic /\ NoSystem
    /\ db = [conns |-> <<>>, failed |-> 0,
             at |-> [c \in Callers |-> [pc |-> "idle", conn |-> 0]]]

\* get_connection() by caller c, who goes on at `pc`: the pool hands out a
\* connection.
acquire(c, pc) ==
    [db EXCEPT !.conns = Append(@, [by |-> c, releases |-> 0,
                                    ended |-> "open"]),
               !.at[c] = [pc |-> pc, conn |-> Len(db.conns) + 1]]

\* release_connection(conn) by caller c, whose operation ended as `how`
\* and who is idle afterwards.
release(c, how) ==
    [db EXCEPT !.conns[db.at[c].conn].releases = @ + 1,
               !.conns[db.at[c].conn].ended = how,
               !.at[c] = [pc |-> "idle", conn |-> 0]]

\* The caller's operation ends as `how` without a release_connection call.
leave(c, how) ==
    [db EXCEPT !.conns[db.at[c].conn].ended = how,
               !.at[c] = [pc |-> "idle", conn |-> 0]]

\* How the transaction ended: the body decides between commit and rollback.
TxEnd(body_ok, end_ok) ==
    (IF body_ok THEN "commit" ELSE "rollback")
        \o (IF end_ok THEN "" ELSE "_raised")

\* _TransactionContext.__aexit__: rollback or commit, then release; when the
\* rollback or commit raises, the release is not reached.
aexit(c, body_ok, end_ok) ==
    IF end_ok THEN release(c, TxEnd(body_ok, end_ok))
    ELSE leave(c, TxEnd(body_ok, end_ok))

\* get_connection() raises (the pool is not initialized, or acquire() times
\* out): nothing is checked out and the operation ends.
DbAcquireFails(c) ==
    /\ db.at[c].pc = "idle"
    /\ OpsBegun < MaxDbOps
    /\ db' = [db EXCEPT !.failed = @ + 1]
    /\ UNCHANGED notDb

\* execute / fetch / fetchrow / fetchval up to the query: conn = await
\* self.get_connection(); the query is sent.
DbQueryBegin(c) ==
    /\ db.at[c].pc = "idle"
    /\ OpsBegun < MaxDbOps
    /\ Cardinality(CheckedOut) < pool_max_size
    /\ db' = acquire(c, "query")
    /\ UNCHANGED notDb

\* The query returns or raises; finally: await self.release_connection(conn).
DbQueryEnd(c, ok) ==
    /\ db.at[c].pc = "query"
    /\ db' = release(c, IF ok THEN "query" ELSE "query_raised")
    /\ UNCHANGED notDb

\* ctx = await db.transaction(): a connection is checked out and wrapped.
TxOpen(c) ==
    /\ db.at[c].pc = "idle"
    /\ OpsBegun < MaxDbOps
    /\ Cardinality(CheckedOut) < pool_max_size
    /\ db' = acquire(c, "tx_open")
    /\ UNCHANGED notDb

\* async with ctx: __aenter__ awaits transaction.start().  When that raises,
\* the exception leaves the async with statement and __aexit__ is not called.
TxEnter(c, ok) ==
    /\ db.at[c].pc = "tx_open"
    /\ db' = IF ok THEN [db EXCEPT !.at[c].pc = "tx_body"]
             ELSE leave(c, "start_raised")
    /\ UNCHANGED notDb

\* The body of the async with ends (normally or with an exception) and
\* __aexit__ runs: rollback or commit, which succeeds or raises.
TxExit(c, body_ok, end_ok) ==
    /\ db.at[c].pc = "tx_body"
    /\ db' = aexit(c, body_ok, end_ok)
    /\ UNCHANGED notDb

NextDb ==
    \/ \E c \in Callers : DbAcquireFails(c)
    \/ \E c \in Callers : DbQueryBegin(c)
    \/ \E c \in Callers, ok \in BOOLEAN : DbQueryEnd(c, ok)
    \/ \E c \in Callers : TxOpen(c)
    \/ \E c \in Callers, ok \in BOOLEAN : TxEnter(c, ok)
    \/ \E c \in Callers, b \in BOOLEAN, e \in BOOLEAN : TxExit(c, b, e)

SpecDb == InitDb /\ [][NextDb]_vars

\* C26: every connection checked out of the pool is released exactly once
\* when the operation that took it has ended, whether the query, the
\* transaction start, the commit or the rollback succeeded or raised; with
\* no operation in progress no connection is checked out.
C26_EveryCheckoutReleasedOnce ==
    /\ \A i \in 1..Len(db.conns) :
          /\ db.conns[i].releases <= 1
          /\ db.at[db.conns[i].by].conn # i => db.conns[i].releases = 1
    /\ (\A c \in Callers : db.at[c].pc = "idle") => CheckedOut = {}

(***************************************************************************)
(* PeriodicAgent (src/agents/base.py): start() calls iterate() once per    *)
(* interval while the running flag is set.                                 *)
(***************************************************************************)
\* How many iterate() calls one run makes at most in a behaviour.
MaxIterations == 2

\* How an iterate() call may end.
IterateOutcomes == {"returned"} \cup Exceptions

\* The loop body without its try/except: an exception of iterate() leaves
\* start().
after_iterate_unguarded(how) == IF how \in Exceptions THEN "raise" ELSE "sleep"

\* try: await self.iterate() / except Exception: log -- then the sleep,
\* however iterate() ended.
after_iterate(how) == "sleep"

\* A PeriodicAgent that was never run.
InitPeriodic ==
    /\ InitBus /\ NoForkManager /\ NoTrading /\ NoDatabase /\ NoSystem
    /\ kind = "periodic"
    /\ running = FALSE
    /\ run_pc = "new"
    /\ hb = "none"
    /\ hb_cancel = FALSE
    /\ cons = <<>>
    /\ start_exit = "none"
    /\ outcome = "none"
    /\ trace = <<>>
    /\ handled = <<>>
    /\ discarded = <<>>
    /\ stop_calls = 0
    /\ periodic = [pc |-> "new", iterations |-> <<>>]

notPeriodic == <<kind, cons, handled, discarded, busVars, forkVars, tradeVars,
                 db, system>>

\* run() up to the first suspension: as RunBegin; start() finds the flag set
\* and calls iterate(), which suspends.
PeriodicRunBegin ==
    /\ kind = "periodic" /\ run_pc = "new"
    /\ running' = TRUE
    /\ trace' = Append(trace, AgentStartedEvent)
    /\ hb' = "created"
    /\ run_pc' = "start"
    /\ periodic' = [periodic EXCEPT !.pc = "iterating"]
    /\ UNCHANGED <<hb_cancel, start_exit, outcome, stop_calls, notPeriodic>>

\* iterate() ends as `how`; the loop goes on to asyncio.sleep(interval), or
\* the exception leaves start().
IterateEnds(how) ==
    /\ kind = "periodic" /\ run_pc = "start" /\ periodic.pc = "iterating"
    /\ IF after_iterate(how) = "sleep"
       THEN /\ periodic' = [pc |-> "sleeping",
                            iterations |-> Append(periodic.iterations, how)]
            /\ UNCHANGED <<running, run_pc, hb, hb_cancel, start_exit, outcome,
                           trace, stop_calls>>
       ELSE /\ periodic' = [pc |-> "done",
                            iterations |-> Append(periodic.iterations, how)]
            /\ LeaveStart(how)
    /\ UNCHANGED notPeriodic

\* The sleep ends and the while condition is evaluated: with the flag set
\* iterate() is called again; with the flag cleared start() returns.
PeriodicWake ==
    /\ kind = "periodic" /\ run_pc = "start" /\ periodic.pc = "sleeping"
    /\ IF running
       THEN /\ Len(periodic.iterations) < MaxIterations
            /\ periodic' = [periodic EXCEPT !.pc = "iterating"]
            /\ UNCHANGED <<running, run_pc, hb, hb_cancel, start_exit, outcome,
                           trace, stop_calls>>
       ELSE /\ periodic' = [periodic EXCEPT !.pc = "done"]
            /\ LeaveStart("returned")
    /\ UNCHANGED notPeriodic

\* The steps the periodic agent takes by itself.
PeriodicSteps ==
    \/ PeriodicRunBegin
    \/ \E how \in IterateOutcomes : IterateEnds(how)
    \/ PeriodicWake
    \/ HeartbeatStep
    \/ HeartbeatCancelled
    \/ CleanupFinish

NextPeriodic ==
    \/ PeriodicSteps
    \/ StopRequested
    \/ CancelStart

\* Every sleep ends, every iterate() call ends, and the tasks of the agent
\* get to run.
SpecPeriodic ==
    InitPeriodic /\ [][NextPeriodic]_vars /\ WF_vars(PeriodicSteps)

\* C27: an iterate() call that raises does not end the loop: start() is still
\* running and sleeps as after a call that returned; after every sleep
\* iterate() is called again as long as the flag is set; once the flag is
\* cleared, the loop ends at its next check with start() returning, and the
\* run comes to its end with the agent stopped.
C27_IterateErrorKeepsLoop ==
    /\ [][/\ Len(periodic'.iterations) = Len(periodic.iterations) + 1
             => /\ run_pc' = "start" /\ start_exit' = "none"
                /\ periodic'.pc = "sleeping"
                /\ running' = running
          /\ (periodic.pc = "sleeping" /\ periodic'.pc # "sleeping"
              /\ start_exit' # "cancelled")
             => IF running
                THEN periodic'.pc = "iterating" /\ run_pc' = "start"
                ELSE /\ periodic'.pc = "done" /\ start_exit' = "returned"
                     /\ run_pc' \in {"await_hb", "done"}
         ]_vars
    /\ (run_pc = "start" /\ ~running) ~> (run_pc = "done" /\ ~running)
    /\ [](run_pc = "done" =>
            /\ start_exit \in {"returned", "cancelled"}
            /\ trace[Len(trace)] = AgentStoppedEvent)

\* C27 witness: the first iterate() call raised, a second call was made and
\* returned, then the flag was cleared and the run ended with start()
\* returning.
C27_Witness ==
    /\ kind = "periodic"
    /\ run_pc = "done" /\ start_exit = "returned"
    /\ Len(periodic.iterations) = 2
    /\ periodic.iterations[1] \in Exceptions
    /\ periodic.iterations[2] = "returned"


(***************************************************************************)
(* EventDrivenAgent (src/agents/base.py): one _process_queue per           *)
(* subscription, each calling handle_event for the events of its queue.    *)
(***************************************************************************)
\* How a handle_event call may end.
HandlerOutcomes == {"returned"} \cup Exceptions

\* _process_queue without its try/except: an exception of handle_event ends
\* the consumer.
after_handler_unguarded(how) == IF how \in Exceptions THEN "raise" ELSE "next"

\* try: await self.handle_event(event) / except Exception: log -- then the
\* next event, however the handler ended.
after_handler(how) == "next"

\* An EventDrivenAgent that was never run.
InitHandlers == InitAgent /\ kind = "event_driven"

\* _process_queue, one round, with the way handle_event ends: event = await
\* queue.get(); if not self._running: break; try: handle_event(event).
ConsumerHandle(q, how) ==
    /\ kind = "event_driven" /\ run_pc = "start"
    /\ q \in DOMAIN cons /\ cons[q] = "waiting"
    /\ queues[q] # <<>>
    /\ queues' = [queues EXCEPT ![q] = Tail(@)]
    /\ consumed' = [consumed EXCEPT ![q] = Append(@, Head(queues[q]))]
    /\ IF running
       THEN /\ handled' = Append(handled, [event |-> Head(queues[q]),
                                           queue |-> q, how |-> how])
            /\ cons' = IF after_handler(how) = "next"
                       THEN cons
                       ELSE [cons EXCEPT ![q] = "done"]
            /\ UNCHANGED discarded
       ELSE /\ how = "returned"
            /\ cons' = [cons EXCEPT ![q] = "done"]
            /\ discarded' = Append(discarded, Head(queues[q]))
            /\ UNCHANGED handled
    /\ UNCHANGED <<subscribers, published_count, publish_result, calls, drained,
                   kind, running, run_pc, hb, hb_cancel, start_exit, outcome,
                   trace, stop_calls, forkVars, tradeVars, sideVars>>

NextHandlers ==
    \/ RunBegin
    \/ \E q \in QueueIds, how \in HandlerOutcomes : ConsumerHandle(q, how)
    \/ GatherDone
    \/ HeartbeatStep
    \/ HeartbeatCancelled
    \/ CleanupFinish
    \/ CancelStart
    \/ StopRequested
    \/ \E t \in EventTypes : Publish(<<t>>)

SpecHandlers == InitHandlers /\ [][NextHandlers]_vars

\* The handler calls made for queue q that raised.
RaisedOn(q) ==
    {i \in 1..Len(handled) : handled[i].queue = q /\ handled[i].how \in Exceptions}

\* C28: a handle_event call that raises ends neither its own consumer nor a
\* sibling, and start() goes on: every consumer is as it was before the call.
\* A consumer ends only with the running flag cleared.  While the agent runs,
\* a consumer whose queue holds an event can take it, whatever was raised
\* before and whether or not the other queues are empty.
C28_HandlerErrorIsolated ==
    /\ [][(/\ Len(handled') = Len(handled) + 1
           /\ handled'[Len(handled')].how \in Exceptions)
          => /\ cons' = cons
             /\ \A q \in DOMAIN cons : cons'[q] = "waiting"
             /\ run_pc' = "start" /\ start_exit' = "none"
             /\ running' = running]_vars
    /\ [](\A q \in DOMAIN cons : cons[q] = "done" => ~running)
    /\ [](\A q \in DOMAIN cons :
             (run_pc = "start" /\ running /\ queues[q] # <<>>)
             => ENABLED ConsumerHandle(q, "returned"))

\* C28 witness: the handler raised on an event of queue 1; later an event of
\* queue 1 and an event of queue 2 were handled, the one of queue 2 while
\* queue 1 was empty.
C28_Witness ==
    /\ kind = "event_driven" /\ Len(handled) = 3
    /\ handled[1].queue = 1 /\ handled[1].how \in Exceptions
    /\ handled[2].queue = 1 /\ handled[2].how = "returned"
    /\ handled[3].queue = 2 /\ handled[3].how = "returned"
    /\ queues[1] = <<>> /\ cons[1] = "waiting"


(***************************************************************************)
(* Claim about fork provisioning (_create_fork).                           *)
(***************************************************************************)
\* C29: _create_fork is all-or-nothing.  A call that made the external create
\* call and ended at once (the create call, the reading of its output or the
\* lookup of the connection parameters failed) left no external fork, the
\* tracked forks as they were and no ForkCreatedEvent; a call that ends after
\* persisting has its fork existing externally and tracked, and publishes
\* exactly one ForkCreatedEvent for it.
C29_CreateForkAllOrNothing ==
    [][/\ (/\ req_pc = "waiting" /\ req_pc' = "waiting"
           /\ fm_log'.create_calls = fm_log.create_calls + 1)
          => /\ ext_forks' = ext_forks
             /\ active_forks' = active_forks
             /\ fork_created' = fork_created
       /\ (req_pc = "persisting" /\ req_pc' = "waiting")
          => /\ req_cur[1].fork_id \in ext_forks'
             /\ req_cur[1].fork_id \in DOMAIN active_forks'
             /\ fork_created' = Append(fork_created, req_cur[1])
      ]_vars


(***************************************************************************)
(* IcarusSystem.start (src/main.py): one task per agent, running            *)
(* agent.run(), until shutdown is requested.                               *)
(***************************************************************************)
\* How many events one agent handles and publishes at most in a behaviour.
MaxWork == 1

\* The agents of the system (three of those _create_agents makes).
Agents == {"market_data", "strategy", "execution"}

notSystem == <<busVars, agentVars, forkVars, tradeVars, db, periodic>>

\* A system whose agents are created, before start(); shutdown may be
\* requested at any time, also before start().  Per agent: the state of the
\* task running run(), the events it handled and published, its running
\* flag, the loop inside its start(), and the lifecycle events of its run.
InitSystem ==
    /\ InitBus /\ NoAgent /\ NoForkManager /\ NoTrading
    /\ NoDatabase /\ NoPeriodic
    /\ system = [pc |-> "new", shutdown |-> FALSE,
                 tasks |-> [a \in Agents |-> "created"],
                 published |-> [a \in Agents |-> 0],
                 is_running |-> [a \in Agents |-> FALSE],
                 loops |-> [a \in Agents |-> "none"],
                 lifecycle |-> [a \in Agents |-> <<>>]]

\* A supervisor that cancels the sibling tasks when one task fails.
on_task_failure_fail_fast(tasks, a) ==
    [b \in DOMAIN tasks |->
        IF b = a THEN "failed"
        ELSE IF tasks[b] = "running" THEN "cancelling" ELSE tasks[b]]

\* The task of agent a ends with the exception run() re-raised.  start()
\* awaits only the shutdown event: nothing looks at the task before the
\* final gather().
on_task_failure(tasks, a) == [tasks EXCEPT ![a] = "failed"]

\* A loop that catches the cancellation and goes on, ending only through a
\* test of the running flag.
on_loop_cancel_swallowed(loop) == loop

\* CancelledError reaches a loop waiting in sleep() or queue.get(): it is no
\* Exception, so no `except Exception` of a loop body catches it, and the
\* loop ends whether or not its condition tests the running flag
\* (consume_events ends by break, `while True` loops by the exception).
on_loop_cancel(loop) == "done"

\* _cleanup() in the finally clause of run(): the flag is cleared, the
\* heartbeat task cancelled and awaited, the stop() hook called and the
\* stopped event published.
cleanup(a) ==
    [system EXCEPT !.is_running[a] = FALSE,
                   !.loops[a] = "done",
                   !.lifecycle[a] = Append(@, "AgentStoppedEvent")]

\* start() up to its first suspension: a task per agent, then
\* self._shutdown_event.wait(), which returns at once when the event is
\* already set; the tasks, not yet started, are then cancelled in the same
\* step.  Otherwise each task runs run() up to the first suspension of its
\* loop.
SysStart ==
    /\ system.pc = "new"
    /\ system' = IF system.shutdown
                 THEN [system EXCEPT !.pc = "gathering",
                                     !.tasks = [a \in Agents |-> "cancelled"]]
                 ELSE [system EXCEPT
                         !.pc = "waiting",
                         !.tasks = [a \in Agents |-> "running"],
                         !.is_running = [a \in Agents |-> TRUE],
                         !.loops = [a \in Agents |-> "waiting"],
                         !.lifecycle = [a \in Agents |-> <<"AgentStartedEvent">>]]
    /\ UNCHANGED notSystem

\* request_shutdown(): self._shutdown_event.set().
RequestShutdown ==
    /\ ~system.shutdown
    /\ system.pc \in {"new", "waiting"}
    /\ system' = [system EXCEPT !.shutdown = TRUE]
    /\ UNCHANGED notSystem

\* The running agent a receives an event and publishes one.
AgentWorks(a) ==
    /\ system.tasks[a] = "running"
    /\ system.published[a] < MaxWork
    /\ system' = [system EXCEPT !.published[a] = @ + 1]
    /\ UNCHANGED notSystem

\* An exception leaves start() of agent a: run() publishes the error event,
\* cleans up and re-raises, and the task ends with that exception.
AgentFails(a) ==
    /\ system.tasks[a] = "running"
    /\ system' = [cleanup(a) EXCEPT !.tasks = on_task_failure(system.tasks, a)]
    /\ UNCHANGED notSystem

\* start() of agent a returns and run() ends after its cleanup.
AgentReturns(a) ==
    /\ system.tasks[a] = "running"
    /\ system' = [cleanup(a) EXCEPT !.tasks[a] = "returned"]
    /\ UNCHANGED notSystem

\* start() resumes from the wait: task.cancel() for every task (without
\* effect on a task that is done), then the gather().
SysCancelAll ==
    /\ system.pc = "waiting" /\ system.shutdown
    /\ system' = [system EXCEPT
                    !.pc = "gathering",
                    !.tasks = [a \in Agents |->
                                 IF system.tasks[a] = "running"
                                 THEN "cancelling" ELSE system.tasks[a]]]
    /\ UNCHANGED notSystem

\* The cancellation of the task of agent a reaches the loop its start()
\* waits in.
LoopCancelled(a) ==
    /\ system.tasks[a] = "cancelling"
    /\ system.loops[a] = "waiting"
    /\ system' = [system EXCEPT !.loops[a] = on_loop_cancel(@)]
    /\ UNCHANGED notSystem

\* The cancelled run() of agent a ends once its loop has: cleanup,
\* CancelledError re-raised.
AgentCancelled(a) ==
    /\ system.tasks[a] = "cancelling"
    /\ system.loops[a] = "done"
    /\ system' = [cleanup(a) EXCEPT !.tasks[a] = "cancelled"]
    /\ UNCHANGED notSystem

\* gather(*tasks, return_exceptions=True) returns once every task is done.
SysGatherDone ==
    /\ system.pc = "gathering"
    /\ \A a \in Agents : system.tasks[a] \in {"failed", "returned", "cancelled"}
    /\ system' = [system EXCEPT !.pc = "done"]
    /\ UNCHANGED notSystem

\* The steps of the orchestrator and of the agents' tasks once shutdown is
\* requested.
ShutdownSteps ==
    \/ SysStart
    \/ SysCancelAll
    \/ \E a \in Agents : LoopCancelled(a)
    \/ \E a \in Agents : AgentCancelled(a)
    \/ SysGatherDone

NextSystem ==
    \/ RequestShutdown
    \/ \E a \in Agents : AgentWorks(a)
    \/ \E a \in Agents : AgentFails(a)
    \/ \E a \in Agents : AgentReturns(a)
    \/ ShutdownSteps

SpecSystem == InitSystem /\ [][NextSystem]_vars

\* The event loop runs every task that can run.
SpecShutdown == SpecSystem /\ WF_vars(ShutdownSteps)

\* C30: the step in which one agent's task ends with an exception changes no
\* other task and not the orchestrator; a task is cancelled only after
\* shutdown was requested; and before that every running agent, whatever
\* happened to the others, can go on receiving and publishing.
C30_AgentFailureIsolated ==
    /\ [][\A a \in Agents :
            (system.tasks[a] = "running" /\ system'.tasks[a] = "failed")
            => /\ \A b \in Agents \ {a} : system'.tasks[b] = system.tasks[b]
               /\ system'.pc = system.pc
               /\ system'.shutdown = system.shutdown
               /\ system'.published = system.published]_vars
    /\ [](\A a \in Agents :
             system.tasks[a] \in {"cancelling", "cancelled"} => system.shutdown)
    /\ [](\A a \in Agents :
             (system.tasks[a] = "running" /\ system.published[a] < MaxWork)
             => ENABLED AgentWorks(a))

\* C30 witness: one agent's task has failed with no shutdown requested, and
\* the two other agents are running, one of them having published.
C30_Witness ==
    /\ system.pc = "waiting" /\ ~system.shutdown
    /\ system.tasks["strategy"] = "failed"
    /\ system.published["strategy"] = MaxWork
    /\ system.tasks["execution"] = "running"
    /\ system.published["execution"] = MaxWork
    /\ system.tasks["market_data"] = "running"


FailedHeartbeat == [type |-> "AgentHeartbeatEvent/failed", status |-> "running"]

\* A heartbeat loop that ends at the first error.
after_heartbeat_error_fatal == "done"

\* The error is logged (in BaseAgent.publish, or by the except clause of the
\* loop) and the loop sleeps until the next beat.
after_heartbeat_error == "sleeping"

\* _heartbeat_loop, one round in which publishing the heartbeat fails.
HeartbeatPublishFails ==
    /\ hb \in {"created", "sleeping"} /\ ~hb_cancel
    /\ running
    /\ CountType(trace, FailedHeartbeat.type) < MaxBeats
    /\ trace' = Append(trace, FailedHeartbeat)
    /\ hb' = after_heartbeat_error
    /\ UNCHANGED <<kind, running, run_pc, hb_cancel, cons, start_exit, outcome,
                   handled, discarded, stop_calls, busVars, forkVars, tradeVars,
                   sideVars>>

NextHeartbeat ==
    \/ NextAgent
    \/ HeartbeatPublishFails

SpecHeartbeat == InitAgent /\ [][NextHeartbeat]_vars

\* The positions of the events of type t in the trace.
At(t) == {i \in 1..Len(trace) : trace[i].type = t}

\* C32: every heartbeat of the trace, published or failed, comes after the
\* started event and before any stopped event; the stopped event is published
\* only with the heartbeat task finished; and the step in which a heartbeat
\* fails to be published leaves the heartbeat loop sleeping for its next
\* round and the agent as it was.
C32_HeartbeatsWhileRunning ==
    /\ [](\A i \in At(AgentHeartbeatEvent.type) \cup At(FailedHeartbeat.type) :
             /\ \E j \in At("AgentStartedEvent") : j < i
             /\ \A k \in At("AgentStoppedEvent") : i < k)
    /\ [](At("AgentStoppedEvent") # {} => hb = "done")
    /\ [][(/\ Len(trace') = Len(trace) + 1
           /\ trace'[Len(trace')] = FailedHeartbeat)
          => /\ hb' = "sleeping"
             /\ running' /\ run_pc' = run_pc /\ start_exit' = "none"]_vars

\* C32 witness: a run that started, failed to publish a heartbeat, published
\* the next one, and ended with the stopped event.
C32_Witness ==
    /\ run_pc = "done" /\ Len(trace) = 4
    /\ trace[1] = AgentStartedEvent
    /\ trace[2] = FailedHeartbeat
    /\ trace[3] = AgentHeartbeatEvent
    /\ trace[4] = AgentStoppedEvent


(***************************************************************************)
(* Claims about the execution agent's tasks.                               *)
(***************************************************************************)
\* The trades made for strategy st, in the order they were made: those
\* published and the one being persisted.
TradesOf(st) ==
    SelectSeq(trade_executed \o pending_trade,
              LAMBDA t : t.strategy_name = st)

\* The positions an empty portfolio holds after the trades trs.
RECURSIVE PositionsAfter(_)
PositionsAfter(trs) ==
    IF trs = <<>> THEN <<>>
    ELSE LET t == trs[Len(trs)]
             before == PositionsAfter(SubSeq(trs, 1, Len(trs) - 1))
         IN IF t.side = "buy"
            THEN add_position(before, t.symbol, t.quantity)
            ELSE sub_position(before, t.symbol, t.quantity)

\* The cash the trades trs took, net of what the sells brought.
RECURSIVE CashTaken(_)
CashTaken(trs) ==
    IF trs = <<>> THEN 0
    ELSE LET t == trs[Len(trs)]
             notional == t.quantity * t.price
         IN CashTaken(SubSeq(trs, 1, Len(trs) - 1))
            + (IF t.side = "buy" THEN notional + t.fee ELSE t.fee - notional)

\* C33: at every point where a task of the execution agent can run, each
\* portfolio is an initial portfolio with whole trades applied: its positions
\* are those its trades leave, and its cash is the capital allocated at its
\* creation less what those same trades took.  No state has the cash of a
\* trade without its position or the position without its cash.
C33_NoPartialTrade ==
    \A st \in DOMAIN strategy_portfolios :
        /\ strategy_portfolios[st].positions = PositionsAfter(TradesOf(st))
        /\ \E a \in PaperAllocationPcts \ {0} :
              strategy_portfolios[st].cash + CashTaken(TradesOf(st))
                 = allocated_capital(a)

\* C33 witness: the signal task is suspended in _persist_trade after a sell
\* that followed a buy, while an allocation waits to be consumed by the
\* allocation task.
C33_Witness ==
    /\ trade_mode = "paper"
    /\ sig_pc = "persisting"
    /\ pending_trade[1].side = "sell"
    /\ Len(trade_executed) = 1 /\ trade_executed[1].side = "buy"
    /\ allocation_queue # <<>>


(***************************************************************************)
(* Claim about overlapping destroy attempts.                               *)
(***************************************************************************)
\* C34: a fork leaves active_forks exactly in the step in which it is deleted
\* externally, and an id that was created is never created or tracked again:
\* so each fork is deleted and removed at most once, whichever of completion,
\* sweep and shutdown get to it.  A destroy attempt of the sweep, of a
\* completion or of stop() for a fork that is not tracked makes no external
\* call and changes neither the tracked nor the existing forks.
C34_DestroyedAtMostOnce ==
    [][/\ \A f \in ForkIds :
            /\ (f \in DOMAIN active_forks /\ f \notin DOMAIN active_forks')
               <=> (f \in DOMAIN active_forks /\ f \in ext_forks
                    /\ f \notin ext_forks')
            /\ (f \in ext_forks' \ ext_forks
                \/ f \in DOMAIN active_forks' \ DOMAIN active_forks)
               => f > fm_log.created
       /\ fm_log'.created >= fm_log.created
       /\ (/\ sweep_pc = "destroying" /\ sweep_pc' # "done"
           /\ sweep_todo' = Tail(sweep_todo)
           /\ Head(sweep_todo) \notin DOMAIN active_forks)
          => /\ sweep_rec'.results[Head(sweep_todo)] = "unknown"
             /\ active_forks' = active_forks /\ ext_forks' = ext_forks
       /\ (/\ completed_queue # <<>> /\ completed_queue' = Tail(completed_queue)
           /\ Head(completed_queue).fork_id \notin DOMAIN active_forks)
          => active_forks' = active_forks /\ ext_forks' = ext_forks
       /\ (/\ stop_todo.ids # <<>> /\ stop_todo'.ids = Tail(stop_todo.ids)
           /\ Head(stop_todo.ids) \notin DOMAIN active_forks)
          => active_forks' = active_forks /\ ext_forks' = ext_forks
      ]_vars

\* C34 witness: the sweep found a fork expired, a completion destroyed that
\* fork while the sweep was under way, and the sweep's own attempt then found
\* it unknown.
C34_Witness ==
    \E f \in DOMAIN sweep_rec.results :
        /\ sweep_rec.results[f] = "unknown"
        /\ f \in DOMAIN sweep_rec.found
        /\ f \notin ext_forks /\ f \notin DOMAIN active_forks
        /\ f <= fm_log.created


(***************************************************************************)
(* The paper execution agent with its task cancelled.                      *)
(***************************************************************************)
\* The task running the execution agent is cancelled: CancelledError is
\* raised where the signal task waits, in queue.get() or inside
\* _persist_trade, whose `except Exception` does not catch it; it leaves the
\* handler, and what the handler had still to do is not done.
ExecCancelled ==
    /\ sig_pc \in {"waiting", "persisting"}
    /\ sig_pc' = "cancelled"
    /\ pending_trade' = <<>>
    /\ UNCHANGED <<notExec, current_allocations, current_prices,
                   strategy_portfolios, signal_queue, allocation_queue,
                   market_queue, trade_executed, trade_errors, exec_log>>

\* The tasks of the agent run until it is cancelled.
NextPaperCancel ==
    \/ \E st \in Strategies, sym \in Symbols, side \in Sides :
          PublishSignal(st, sym, side)
    \/ \E al \in [Strategies -> PaperAllocationPcts] : PublishAllocation(al)
    \/ \E sym \in Symbols, price \in PaperPrices : PublishTick(sym, price)
    \/ sig_pc # "cancelled" /\ ProcessAllocation
    \/ sig_pc # "cancelled" /\ TrackPrice
    \/ ExecuteSignal(PaperReply)
    \/ TradePersisted
    \/ ExecCancelled

SpecPaperCancel == InitPaper /\ [][NextPaperCancel]_vars

\* The trades published for strategy st.
PublishedTradesOf(st) ==
    SelectSeq(trade_executed, LAMBDA t : t.strategy_name = st)

\* C35: once the signal handler is over, on whatever way, every mutation of a
\* portfolio has its TradeExecuted event: each portfolio is what the
\* published trades of its strategy make of an initial portfolio.
C35_EveryMutationPublished ==
    sig_pc # "persisting" =>
        \A st \in DOMAIN strategy_portfolios :
            /\ strategy_portfolios[st].positions
                  = PositionsAfter(PublishedTradesOf(st))
            /\ \E a \in PaperAllocationPcts \ {0} :
                  strategy_portfolios[st].cash + CashTaken(PublishedTradesOf(st))
                     = allocated_capital(a)


(***************************************************************************)
(* An agent whose start() subscribes (TradeExecutionAgent, ForkManagerAgent)*)
(* run more than once on the same bus.                                     *)
(***************************************************************************)
\* The class the agent subscribes to in start().
StartSubscription == "TradingSignalEvent"

\* run() of a new or a stopped agent up to the first suspension inside
\* start(): as RunBegin, and start() subscribes a new queue before it waits.
SubscribingRunBegin ==
    /\ run_pc \in {"new", "done"}
    /\ Len(queues) < MaxQueues
    /\ running' = TRUE
    /\ trace' = Append(trace, AgentStartedEvent)
    /\ hb' = "created"
    /\ hb_cancel' = FALSE
    /\ start_exit' = "none"
    /\ outcome' = "none"
    /\ run_pc' = "start"
    /\ queues' = Append(queues, <<>>)
    /\ subscribers' = [subscribers EXCEPT
                         ![StartSubscription] = Append(@, Len(queues) + 1)]
    /\ consumed' = Append(consumed, <<>>)
    /\ drained' = Append(drained, <<>>)
    /\ UNCHANGED <<published_count, publish_result, calls, kind, cons, handled,
                   discarded, stop_calls, forkVars, tradeVars, sideVars>>

NextSubscribing ==
    \/ SubscribingRunBegin
    \/ CancelStart
    \/ HeartbeatStep
    \/ HeartbeatCancelled
    \/ CleanupFinish
    \/ \E t \in EventTypes : Publish(<<t>>)

SpecSubscribing ==
    Init /\ [][NextSubscribing]_vars

\* C36: once run() has completed, no queue that the agent registered is left
\* in the registry (the agent is the only subscriber here).
C36_StoppedAgentHoldsNoSubscription ==
    run_pc = "done" => \A t \in EventTypes : subscribers[t] = <<>>


(***************************************************************************)
(* The paper execution agent under run(), with a signal whose execution    *)
(* raises.                                                                 *)
(***************************************************************************)
\* The agent is inside start(): run() has published the started event and
\* created the heartbeat task, start() has subscribed and gathers its tasks.
InitSignalError ==
    /\ InitBus /\ NoForkManager /\ NoSide
    /\ kind = "custom"
    /\ running = TRUE
    /\ run_pc = "start"
    /\ hb = "created"
    /\ hb_cancel = FALSE
    /\ cons = <<>>
    /\ start_exit = "none"
    /\ outcome = "none"
    /\ trace = <<AgentStartedEvent>>
    /\ handled = <<>>
    /\ discarded = <<>>
    /\ stop_calls = 0
    /\ trade_mode = "paper"
    /\ position_size_pct \in PositionSizePcts
    /\ current_allocations \in {<<>>} \cup [Strategies -> PaperAllocationPcts]
    /\ current_prices = <<>>
    /\ strategy_portfolios = <<>>
    /\ signal_queue = <<>>
    /\ allocation_queue = <<>>
    /\ market_queue = <<>>
    /\ sig_pc = "waiting"
    /\ pending_trade = <<>>
    /\ trade_executed = <<>>
    /\ trade_errors = <<>>
    /\ exec_log = [signals |-> 0, allocations |-> 0, ticks |-> 0]
    /\ halt_active = FALSE
    /\ daily_start_value = initial_portfolio_value
    /\ risk_day = 0
    /\ emergency_halts = 0
    /\ last_check = [checks |-> 0, seen |-> 0, did |-> "none"]

\* _process_signals takes a signal and _execute_signal raises e before it
\* changes anything (Decimal(str(allocation)) on an allocation that is no
\* numeral, Decimal / float on a price that is a float).  No except clause
\* stands between the raise and gather() in start(): the exception leaves
\* start() and run() handles it as the failure of the agent.
ExecuteSignalRaises(e) ==
    /\ run_pc = "start"
    /\ sig_pc = "waiting"
    /\ signal_queue # <<>>
    /\ signal_queue' = Tail(signal_queue)
    /\ sig_pc' = "failed"
    /\ LeaveStart(e)
    /\ UNCHANGED <<kind, cons, handled, discarded, busVars, forkVars,
                   riskVars, sideVars, trade_mode, position_size_pct,
                   current_allocations, current_prices, strategy_portfolios,
                   allocation_queue, market_queue, pending_trade,
                   trade_executed, trade_errors, exec_log>>

\* The tasks of the agent handle events while the running flag is set.
NextSignalError ==
    \/ \E st \in Strategies, sym \in Symbols, side \in Sides :
          PublishSignal(st, sym, side)
    \/ \E al \in [Strategies -> PaperAllocationPcts] : PublishAllocation(al)
    \/ \E sym \in Symbols, price \in PaperPrices : PublishTick(sym, price)
    \/ running /\ ProcessAllocation
    \/ running /\ TrackPrice
    \/ running /\ ExecuteSignal(PaperReply)
    \/ running /\ TradePersisted
    \/ \E e \in Exceptions : ExecuteSignalRaises(e)
    \/ HeartbeatStep
    \/ HeartbeatCancelled
    \/ CleanupFinish

SpecSignalError == InitSignalError /\ [][NextSignalError]_vars

\* C37: with no stop requested, an exception raised while one signal is
\* executed leaves the agent running: the running flag stays set, no fatal
\* AgentError is published, and the signal task goes on to the next signal.
C37_SignalErrorIsolated ==
    /\ running
    /\ CountType(trace, "AgentErrorEvent") = 0
    /\ sig_pc \in {"waiting", "persisting"}


(***************************************************************************)
(* The emergency halt over days.                                           *)
(***************************************************************************)
\* C38: while halt_active is set no step publishes an EmergencyHalt; the
\* flag is cleared only by a daily reset on a new day, which in the same
\* step sets daily_start_value to the value it read (the initial value when
\* none is available); and a check that sees a breach with the flag clear
\* sets it and publishes exactly one EmergencyHalt.
C38_HaltLatchedUntilDailyReset ==
    [][/\ halt_active => emergency_halts' = emergency_halts
       /\ (halt_active /\ ~halt_active') =>
             /\ risk_day' = risk_day + 1
             /\ last_check'.did = "reset"
             /\ daily_start_value' = IF last_check'.seen = 0
                                     THEN initial_portfolio_value
                                     ELSE last_check'.seen
       /\ (/\ ~halt_active
           /\ last_check'.checks = last_check.checks + 1
           /\ last_check'.did # "unavailable"
           /\ (last_check'.seen - daily_start_value) * 100
                < (0 - max_daily_loss_pct) * daily_start_value) =>
             /\ halt_active'
             /\ emergency_halts' = emergency_halts + 1]_vars

\* A breach raised the halt, the reset of the next day cleared it, and a
\* breach against the new start value has raised the second halt.
C38_Witness ==
    /\ risk_day = 1
    /\ emergency_halts = 2
    /\ halt_active
    /\ last_check.did = "halt"


(***************************************************************************)
(* Claim about what a consumer hands to the handler.                       *)
(***************************************************************************)
\* The events among es that were taken from queue q, in the order of es.
TakenFrom(es, q) ==
    SelectSeq(es, LAMBDA e : \E i \in 1..Len(consumed[q]) : consumed[q][i] = e)

\* C39: what a consumer took from its queue is, in the order taken, the
\* events the handler was called with followed by at most one discarded
\* event; no event is handled twice; and a consumer that takes an event with
\* the running flag cleared removes it from the queue, discards it without
\* calling the handler and ends, while one that takes it with the flag set
\* calls the handler with it.
C39_HandledOnceInOrderWhileRunning ==
    /\ [](\A q \in DOMAIN cons :
            /\ consumed[q] = TakenFrom(handled, q) \o TakenFrom(discarded, q)
            /\ Len(TakenFrom(discarded, q)) <= 1)
    /\ [](\A i, j \in 1..Len(handled) : handled[i] = handled[j] => i = j)
    /\ [][\A q \in DOMAIN cons :
            consumed'[q] # consumed[q] =>
               /\ queues[q] # <<>>
               /\ queues'[q] = Tail(queues[q])
               /\ IF running
                  THEN /\ handled' = Append(handled, Head(queues[q]))
                       /\ discarded' = discarded
                  ELSE /\ handled' = handled
                       /\ discarded' = Append(discarded, Head(queues[q]))
                       /\ cons'[q] = "done"]_vars

\* C39 witness: a consumer handled two events of its queue, the flag was
\* cleared, and it took and discarded the third and ended.
C39_Witness ==
    \E q \in DOMAIN cons :
        /\ Len(consumed[q]) = 3
        /\ handled = SubSeq(consumed[q], 1, 2)
        /\ discarded = <<consumed[q][3]>>
        /\ cons[q] = "done" /\ ~running


(***************************************************************************)
(* Claim about rejected paper buys.                                        *)
(***************************************************************************)
\* C40: in paper mode a buy signal for a strategy with an allocation, whose
\* spend (the smaller of allocated capital x position size and the available
\* cash) is below the minimum order of 10 or whose symbol has no known price,
\* is rejected: no trade is made or published, the portfolio of the strategy
\* has the cash and the positions it had (those of a new portfolio when the
\* signal is its first), and no other portfolio changes.
C40_PaperBuyRejected ==
    [][(/\ SignalProcessed
        /\ trade_mode = "paper"
        /\ NextSignal.side = "buy"
        /\ NextAllocated
        /\ \/ Spend < MinOrder
           \/ NextSignal.symbol \notin DOMAIN current_prices)
       => /\ pending_trade' = <<>>
          /\ sig_pc' = "waiting"
          /\ trade_executed' = trade_executed
          /\ trade_errors' = trade_errors
          /\ DOMAIN strategy_portfolios'
               = DOMAIN strategy_portfolios \cup {NextSignal.strategy_name}
          /\ \A x \in DOMAIN strategy_portfolios' :
                strategy_portfolios'[x] =
                   IF x = NextSignal.strategy_name THEN NextPortfolio
                   ELSE strategy_portfolios[x]]_vars

\* C40 witness: a buy was executed and published and left less than the
\* minimum order in cash; the agent is about to take a second buy signal for
\* the same strategy, with the price of its symbol known.
C40_Witness ==
    /\ trade_mode = "paper"
    /\ sig_pc = "waiting"
    /\ Len(trade_executed) = 1 /\ trade_executed[1].side = "buy"
    /\ signal_queue # <<>>
    /\ NextSignal.side = "buy"
    /\ NextSignal.strategy_name = trade_executed[1].strategy_name
    /\ NextSignal.symbol \in DOMAIN current_prices
    /\ NextAllocated
    /\ NextPortfolio.cash > 0
    /\ Spend < MinOrder
====
